---- MODULE Spec2Model ----
(***************************************************************************)
(* A model of simpleconfig: the configuration tree (SimplerConfig), its    *)
(* nestedcfg Parser and Writer, the type modifier and the immutability     *)
(* overlay.                                                                *)
(*                                                                         *)
(* Text is modelled character by character: a string is a sequence of      *)
(* one-character strings, a line is a string without its line break, and a *)
(* file is a sequence of lines.  Nodes live in an arena: `nodes` is a      *)
(* sequence of node records and a node's identity is its index, so that    *)
(* owner/root references are indices and None is 0.                        *)
(***************************************************************************)
EXTENDS Integers, Sequences, FiniteSets, TLC

VARIABLES
    nodes,        \* the arena of SimplerConfig objects; nodes[1] is the root
    wholeFrozen,  \* history: a set_immutable(recursive=True, from_root=True) call returned
    fp,           \* the lines of the stream a Parser reads
    lineno,       \* how many lines of fp the Parser's loop has consumed
    conf_stack,   \* Parser.conf_stack
    new_conf,     \* Parser.new_conf (0 is None)
    perr,         \* 0, or the line number Parser.parse reported when it raised
    files         \* the file system: for each path, whether a file is there and its lines

vars == <<nodes, wholeFrozen, fp, lineno, conf_stack, new_conf, perr, files>>

parserVars == <<fp, lineno, conf_stack, new_conf, perr>>

----------------------------------------------------------------------------
(* Bounds of the model. *)

\* the arena holds at most this many nodes
MaxNodes == 3

\* the order lists of the arena hold at most this many entries together
MaxOrder == 3

\* a parsed stream has at most this many lines
MaxLines == 3

----------------------------------------------------------------------------
(* Characters and strings. *)

LowerSeq == << "a", "b", "c", "d", "e", "f", "g", "h", "i", "j", "k", "l", "m",
               "n", "o", "p", "q", "r", "s", "t", "u", "v", "w", "x", "y", "z" >>

UpperSeq == << "A", "B", "C", "D", "E", "F", "G", "H", "I", "J", "K", "L", "M",
               "N", "O", "P", "Q", "R", "S", "T", "U", "V", "W", "X", "Y", "Z" >>

DigitSeq == << "0", "1", "2", "3", "4", "5", "6", "7", "8", "9" >>

Range(s) == { s[i] : i \in DOMAIN s }

IsDigit(c) == c \in Range(DigitSeq)

IsLetter(c) == c \in Range(LowerSeq) \cup Range(UpperSeq)

\* a str.lower() that keeps the case: the normalization without case folding
KeepCase(c) == c

\* str.lower() on one character
LowerChar(c) ==
    IF c \in Range(UpperSeq)
    THEN LowerSeq[CHOOSE i \in DOMAIN UpperSeq : UpperSeq[i] = c]
    ELSE c

\* the decimal digits of a natural number
RECURSIVE NatToStr(_)
NatToStr(n) ==
    IF n < 10 THEN << DigitSeq[n + 1] >>
    ELSE NatToStr(n \div 10) \o << DigitSeq[(n % 10) + 1] >>

\* str(n) for an int
IntToStr(n) == IF n < 0 THEN << "-" >> \o NatToStr(0 - n) ELSE NatToStr(n)

\* the value of a string of decimal digits
RECURSIVE DigitsToNat(_)
DigitsToNat(s) ==
    IF s = << >> THEN 0
    ELSE DigitsToNat(SubSeq(s, 1, Len(s) - 1)) * 10
         + ((CHOOSE i \in DOMAIN DigitSeq : DigitSeq[i] = s[Len(s)]) - 1)

\* s.startswith(p)
StartsWith(s, p) == Len(s) >= Len(p) /\ SubSeq(s, 1, Len(p)) = p

\* the tail of s from position i on
From(s, i) == SubSeq(s, i, Len(s))

\* comment.split("\n")
RECURSIVE SplitLines(_)
SplitLines(s) ==
    IF \E i \in DOMAIN s : s[i] = "\n"
    THEN LET i == CHOOSE j \in DOMAIN s : s[j] = "\n" /\ \A h \in 1..(j - 1) : s[h] # "\n"
         IN  << SubSeq(s, 1, i - 1) >> \o SplitLines(From(s, i + 1))
    ELSE << s >>

----------------------------------------------------------------------------
(* Python values.  A value handed to the tree is one of                    *)
(*   [t |-> "int", n]   [t |-> "float", s]   [t |-> "str", s]              *)
(*   [t |-> "bool", b]  [t |-> "none"]  [t |-> "ellipsis"]                 *)
(*   [t |-> "dict", items]  (a sequence of [k, v], k a raw key)            *)
(*   [t |-> "list", items]  (a sequence of values; list or tuple)          *)
(*   [t |-> "type", name, module]  (a class or a function).                *)
(* A value stored in a node's data is one of the scalars, or               *)
(*   [t |-> "node", id]   a child SimplerConfig.                           *)
(* A raw key is [t |-> "int", n] or [t |-> "str", s].                      *)

Int_(n) == [t |-> "int", n |-> n]

Str_(s) == [t |-> "str", s |-> s]

NodeRef(id) == [t |-> "node", id |-> id]

\* the names used by the source
K_owner == << "o", "w", "n", "e", "r" >>
K_back == << "b", "a", "c", "k" >>
K_root == << "r", "o", "o", "t" >>
K_sub_path == << "s", "u", "b", "_", "p", "a", "t", "h" >>
K_modifier == << "m", "o", "d", "i", "f", "i", "e", "r" >>
K_key == << "k", "e", "y" >>
K_globals == << "g", "l", "o", "b", "a", "l", "s" >>
K_list == << "l", "i", "s", "t" >>
K_name == << "n", "a", "m", "e" >>
K_module == << "m", "o", "d", "u", "l", "e" >>
K_args == << "a", "r", "g", "s" >>
K_kwargs == << "k", "w", "a", "r", "g", "s" >>
K_object == << "o", "b", "j", "e", "c", "t" >>
K_instance == << "i", "n", "s", "t", "a", "n", "c", "e" >>
K_call == << "c", "a", "l", "l" >>

\* the one module of the modifiers package
TypeModifierName == << "t", "y", "p", "e", "_", "m", "o", "d", "i", "f", "i", "e", "r" >>

\* modifiers.type_modifier.implicit_fields
implicit_fields == { K_object, K_instance, K_call }

\* repr(value) and str(value), as the Writer and encode_field print them
RECURSIVE Repr(_), ReprItems(_, _)
Repr(v) ==
    CASE v.t = "int" -> IntToStr(v.n)
      [] v.t = "float" -> v.s
      [] v.t = "str" -> << "'" >> \o v.s \o << "'" >>
      [] v.t = "list" -> << "[" >> \o ReprItems(v.items, FALSE) \o << "]" >>
      [] v.t = "dict" -> << "{" >> \o ReprItems(v.items, TRUE) \o << "}" >>
      [] v.t = "bool" -> IF v.b THEN << "T", "r", "u", "e" >> ELSE << "F", "a", "l", "s", "e" >>
      [] v.t = "none" -> << "N", "o", "n", "e" >>
      [] v.t = "ellipsis" -> << "E", "l", "l", "i", "p", "s", "i", "s" >>
      [] OTHER -> << "<", ">" >>

ReprItems(items, keyed) ==
    IF items = << >> THEN << >>
    ELSE LET one == IF keyed
                    THEN Repr(items[1].k) \o << ":", " " >> \o Repr(items[1].v)
                    ELSE Repr(items[1])
         IN  one \o (IF Len(items) > 1 THEN << ",", " " >> ELSE << >>)
                 \o ReprItems(Tail(items), keyed)

StrOf(v) == IF v.t = "str" THEN v.s ELSE Repr(v)

----------------------------------------------------------------------------
(* The result of a call: the arena after it, the exception it raised ("" *)
(* when it returned) and what it returned.                                *)

NoneV == [t |-> "none"]

\* F(v), with v computed once and then shared by all its uses in F
With(v, F(_)) == CHOOSE y \in { F(x) : x \in { v } } : TRUE

Return(ns, ret) == [nodes |-> ns, err |-> "", ret |-> ret]

Raise(ns, e) == [nodes |-> ns, err |-> e, ret |-> NoneV]

\* None as a modifier name or a key
NoName == << >>

----------------------------------------------------------------------------
(* SimplerConfig: construction and metadata. *)

\* __meta__ has no key 'config_file_path' until set_file_path adds it
NoPath == [t |-> "absent"]

\* an __init_private_data__ that makes every object its own root
__init_private_data___own_root(self, owner, root, modifier, sub_path, key) ==
    [ data |-> << >>,
      meta |-> [ owner |-> owner, back |-> owner, root |-> self,
                 sub_path |-> sub_path, modifier |-> modifier, key |-> key,
                 config_file_path |-> NoPath ],
      order |-> << >>,
      sections |-> {},
      immutable |-> FALSE ]

\* __init_private_data__: the object a constructor call builds; `self` is the
\* index the new object gets, owner 0 is None
__init_private_data__(self, owner, root, modifier, sub_path, key) ==
    [ data |-> << >>,
      meta |-> [ owner |-> owner, back |-> owner,
                 root |-> IF owner = 0 THEN self ELSE root,
                 sub_path |-> sub_path, modifier |-> modifier, key |-> key,
                 config_file_path |-> NoPath ],
      order |-> << >>,
      sections |-> {},
      immutable |-> FALSE ]

\* the keys __meta__ is built with.  set_file_path adds 'config_file_path',
\* kept here as a field of its own: no key of that name is among the inputs.
MetaKeys == { K_owner, K_back, K_root, K_sub_path, K_modifier, K_key }

\* key in self.__data__
InData(node, key) == \E i \in DOMAIN node.data : node.data[i].k = key

\* self.__data__[key]
DataAt(node, key) == node.data[CHOOSE i \in DOMAIN node.data : node.data[i].k = key].v

\* the keys of self.__data__
DataKeys(node) == { node.data[i].k : i \in DOMAIN node.data }

\* get_modifier: the type modifier's module, or None for any other name
have_type_modifier(node) == node.meta.modifier = TypeModifierName

\* has_section: the key is used as given, not transformed
has_section(node, key) == key \in node.sections

\* __key_transform__ of a raw key
__key_transform__(key) ==
    LET s == IF key.t = "int" THEN K_list \o IntToStr(key.n) ELSE key.s
        r == [ i \in DOMAIN s |->
                 IF s[i] \in { "-", " ", "." } THEN "_" ELSE LowerChar(s[i]) ]
    IN  IF r = << >> THEN [err |-> "IndexError", key |-> r]
        ELSE IF IsDigit(r[1]) THEN [err |-> "KeyError", key |-> r]
        ELSE [err |-> "", key |-> r]

----------------------------------------------------------------------------
(* modifiers.type_modifier *)

\* list(value), or a TypeError
ListOf(v) ==
    CASE v.t = "list" -> [err |-> "", items |-> v.items]
      [] v.t = "str" -> [err |-> "", items |-> [ i \in DOMAIN v.s |-> Str_(<< v.s[i] >>) ]]
      [] v.t = "dict" -> [err |-> "", items |-> [ i \in DOMAIN v.items |-> v.items[i].k ]]
      [] OTHER -> [err |-> "TypeError", items |-> << >>]

\* whether dict() takes x as a key/value pair
IsPair(x) == (x.t = "list" /\ Len(x.items) = 2) \/ (x.t = "str" /\ Len(x.s) = 2)

PairOf(x) ==
    IF x.t = "list" THEN [k |-> x.items[1], v |-> x.items[2]]
    ELSE [k |-> Str_(<< x.s[1] >>), v |-> Str_(<< x.s[2] >>)]

\* dict(value), or the error it raises
DictOf(v) ==
    CASE v.t = "dict" -> [err |-> "", items |-> v.items]
      [] v.t = "list" ->
           IF \A i \in DOMAIN v.items : IsPair(v.items[i])
           THEN [err |-> "", items |-> [ i \in DOMAIN v.items |-> PairOf(v.items[i]) ]]
           ELSE [err |-> "TypeError", items |-> << >>]
      [] v.t = "str" ->
           IF v.s = << >> THEN [err |-> "", items |-> << >>]
           ELSE [err |-> "ValueError", items |-> << >>]
      [] OTHER -> [err |-> "TypeError", items |-> << >>]

\* type_modifier.encode_field
encode_field(key, value) ==
    IF key \in { K_name, K_module }
    THEN [err |-> "", key |-> key, value |-> Str_(StrOf(value))]
    ELSE IF key = K_args
    THEN LET l == ListOf(value)
         IN  [err |-> l.err, key |-> key, value |-> [t |-> "list", items |-> l.items]]
    ELSE IF key = K_kwargs
    THEN LET d == DictOf(value)
         IN  [err |-> d.err, key |-> key, value |-> [t |-> "dict", items |-> d.items]]
    ELSE [err |-> "ValueError", key |-> key, value |-> value]

----------------------------------------------------------------------------
(* SimplerConfig: writing.  Every method tagged @mutator is replaced on a  *)
(* frozen object by a stub that raises ImmutableConfiguration; the model   *)
(* keeps that as the node's `immutable` flag, tested where the method is   *)
(* looked up on the object.                                                *)

\* self.__data__[key] = value on a dict: a bound key keeps its place
Assigned(data, key, value) ==
    IF \E i \in DOMAIN data : data[i].k = key
    THEN [ i \in DOMAIN data |-> IF data[i].k = key THEN [k |-> key, v |-> value] ELSE data[i] ]
    ELSE Append(data, [k |-> key, v |-> value])

\* an __update_data__ that binds the key and does not log it in __order__
__update_data___unlogged(ns, self, key, value) ==
    IF ns[self].immutable THEN Raise(ns, "ImmutableConfiguration")
    ELSE Return([ns EXCEPT ![self].data = Assigned(@, key, value)], NoneV)

\* __update_data__
__update_data__(ns, self, key, value) ==
    IF ns[self].immutable THEN Raise(ns, "ImmutableConfiguration")
    ELSE Return([ns EXCEPT ![self].data = Assigned(@, key, value),
                           ![self].order = Append(@, [type |-> "key", info |-> key])],
                NoneV)

\* add_section; returns the index of the new section
add_section(ns, self, key, section_type) ==
    IF ns[self].immutable THEN Raise(ns, "ImmutableConfiguration")
    ELSE With(__key_transform__(key), LAMBDA kt :
         LET new == Len(ns) + 1
             sub_conf == __init_private_data__(new, self, ns[self].meta.root, section_type,
                                           Append(ns[self].meta.sub_path, kt.key), kt.key)
         IN  IF kt.err # "" THEN Raise(ns, kt.err)
             ELSE IF kt.key \in MetaKeys THEN Raise(ns, "KeyError")
             ELSE IF has_section(ns[self], kt.key) THEN Raise(ns, "KeyError")
             ELSE IF InData(ns[self], kt.key) THEN Raise(ns, "KeyError")
             ELSE With(__update_data__(Append(ns, sub_conf), self, kt.key, NodeRef(new)),
                       LAMBDA u :
                       Return([u.nodes EXCEPT ![self].sections = @ \cup { kt.key }], new)))

\* add_comment
add_comment(ns, self, comment) ==
    IF ns[self].immutable THEN Raise(ns, "ImmutableConfiguration")
    ELSE Return([ns EXCEPT ![self].order = Append(@, [type |-> "comment", info |-> comment])],
                NoneV)

RECURSIVE set_value(_, _, _, _), SetDictItems(_, _, _), SetListItems(_, _, _, _)

\* a set_value without the test `key in self.__data__`: a bound key is bound anew
set_value_rebinding(ns, self, key, value) ==
    IF ns[self].immutable THEN Raise(ns, "ImmutableConfiguration")
    ELSE
    With(__key_transform__(key), LAMBDA kt :
    With(IF have_type_modifier(ns[self]) THEN encode_field(kt.key, value)
         ELSE [err |-> "", key |-> kt.key, value |-> value], LAMBDA ef :
        IF kt.err # "" THEN Raise(ns, kt.err)
        ELSE IF ef.err # "" THEN Raise(ns, ef.err)
        ELSE IF have_type_modifier(ns[self]) /\ ef.key \in implicit_fields
        THEN Raise(ns, "AssertionError")
        ELSE IF ef.key \in MetaKeys THEN Raise(ns, "KeyError")
        ELSE IF ef.value.t = "type"
        THEN \* new_section.encode(value): type_modifier.encode sets name, then module
             With(add_section(ns, self, Str_(ef.key), TypeModifierName), LAMBDA a :
                 IF a.err # "" THEN a
                 ELSE With(set_value(a.nodes, a.ret, Str_(K_name), Str_(ef.value.name)),
                           LAMBDA n1 :
                           IF n1.err # "" THEN n1
                           ELSE set_value(n1.nodes, a.ret, Str_(K_module),
                                          Str_(ef.value.module))))
        ELSE IF ef.value.t = "dict"
        THEN With(add_section(ns, self, Str_(ef.key), NoName), LAMBDA a :
                 IF a.err # "" THEN a ELSE SetDictItems(a.nodes, a.ret, ef.value.items))
        ELSE IF ef.value.t = "list"
        THEN With(add_section(ns, self, Str_(ef.key), NoName), LAMBDA a :
                 IF a.err # "" THEN a ELSE SetListItems(a.nodes, a.ret, ef.value.items, 0))
        ELSE __update_data__(ns, self, ef.key, ef.value)))

\* a set_value that never asks the modifier: no encode_field, no assertion
set_value_without_modifier(ns, self, key, value) ==
    IF ns[self].immutable THEN Raise(ns, "ImmutableConfiguration")
    ELSE With(__key_transform__(key), LAMBDA kt :
        IF kt.err # "" THEN Raise(ns, kt.err)
        ELSE IF kt.key \in MetaKeys THEN Raise(ns, "KeyError")
        ELSE IF InData(ns[self], kt.key) THEN Raise(ns, "KeyError")
        ELSE __update_data__(ns, self, kt.key, value))

\* set_value, which __setitem__ and __setattr__ call
set_value(ns, self, key, value) ==
    IF ns[self].immutable THEN Raise(ns, "ImmutableConfiguration")
    ELSE
    With(__key_transform__(key), LAMBDA kt :
    With(IF have_type_modifier(ns[self]) THEN encode_field(kt.key, value)
         ELSE [err |-> "", key |-> kt.key, value |-> value], LAMBDA ef :
        IF kt.err # "" THEN Raise(ns, kt.err)
        ELSE IF ef.err # "" THEN Raise(ns, ef.err)
        ELSE IF have_type_modifier(ns[self]) /\ ef.key \in implicit_fields
        THEN Raise(ns, "AssertionError")
        ELSE IF ef.key \in MetaKeys THEN Raise(ns, "KeyError")
        ELSE IF InData(ns[self], ef.key) THEN Raise(ns, "KeyError")
        ELSE IF ef.value.t = "type"
        THEN \* new_section.encode(value): type_modifier.encode sets name, then module
             With(add_section(ns, self, Str_(ef.key), TypeModifierName), LAMBDA a :
                 IF a.err # "" THEN a
                 ELSE With(set_value(a.nodes, a.ret, Str_(K_name), Str_(ef.value.name)),
                           LAMBDA n1 :
                           IF n1.err # "" THEN n1
                           ELSE set_value(n1.nodes, a.ret, Str_(K_module),
                                          Str_(ef.value.module))))
        ELSE IF ef.value.t = "dict"
        THEN With(add_section(ns, self, Str_(ef.key), NoName), LAMBDA a :
                 IF a.err # "" THEN a ELSE SetDictItems(a.nodes, a.ret, ef.value.items))
        ELSE IF ef.value.t = "list"
        THEN With(add_section(ns, self, Str_(ef.key), NoName), LAMBDA a :
                 IF a.err # "" THEN a ELSE SetListItems(a.nodes, a.ret, ef.value.items, 0))
        ELSE __update_data__(ns, self, ef.key, ef.value)))

\* for k, v in value.items(): section[k] = v
SetDictItems(ns, self, items) ==
    IF items = << >> THEN Return(ns, NoneV)
    ELSE With(set_value(ns, self, items[1].k, items[1].v), LAMBDA r :
             IF r.err # "" THEN r ELSE SetDictItems(r.nodes, self, Tail(items)))

\* for k, v in enumerate(value): section[k] = v
SetListItems(ns, self, items, k) ==
    IF items = << >> THEN Return(ns, NoneV)
    ELSE With(set_value(ns, self, Int_(k), items[1]), LAMBDA r :
             IF r.err # "" THEN r ELSE SetListItems(r.nodes, self, Tail(items), k + 1))

\* update(mapping)
update(ns, self, items) ==
    IF ns[self].immutable THEN Raise(ns, "ImmutableConfiguration")
    ELSE SetDictItems(ns, self, items)

\* set_modifier, with a name that is a string or None: "Deletes all the inner
\* data", that is __data__ alone
set_modifier(ns, self, modifier_name) ==
    IF ns[self].immutable THEN Raise(ns, "ImmutableConfiguration")
    ELSE Return([ns EXCEPT ![self].data = << >>, ![self].meta.modifier = modifier_name],
                NoneV)

\* a clear that is not among the methods a freeze replaces
clear_unguarded(ns, self) == set_modifier([ns EXCEPT ![self].data = << >>], self, NoName)

\* clear
clear(ns, self) ==
    IF ns[self].immutable THEN Raise(ns, "ImmutableConfiguration")
    ELSE set_modifier([ns EXCEPT ![self].data = << >>], self, NoName)

\* a __delitem__ that takes the key out of __order__ as well
__delitem___unlogging(ns, self, key) ==
    LET kt == __key_transform__(key)
    IN  IF kt.err # "" THEN Raise(ns, kt.err)
        ELSE IF ~InData(ns[self], kt.key) THEN Raise(ns, "KeyError")
        ELSE Return([ns EXCEPT
                       ![self].data = SelectSeq(@, LAMBDA e : e.k # kt.key),
                       ![self].order = SelectSeq(@, LAMBDA e : e.type # "key" \/ e.info # kt.key),
                       ![self].sections = @ \ { kt.key }],
                    NoneV)

\* `del node[key]`: the statement runs the class's __delitem__, whatever the
\* object's own attributes are
__delitem__(ns, self, key) ==
    LET kt == __key_transform__(key)
    IN  IF kt.err # "" THEN Raise(ns, kt.err)
        ELSE IF ~InData(ns[self], kt.key) THEN Raise(ns, "KeyError")
        ELSE Return([ns EXCEPT
                       ![self].data = SelectSeq(@, LAMBDA e : e.k # kt.key),
                       ![self].sections = @ \ { kt.key }],
                    NoneV)

\* del node.name.  The class gives __setattr__ and __getattr__ and no
\* __delattr__, so the statement runs object.__delattr__, which looks for the
\* name in the instance's own attributes.  Those are the private fields and the
\* stubs of a frozen node; a key of data is never one of them.
__delattr__(ns, self, name) == Raise(ns, "AttributeError")

----------------------------------------------------------------------------
(* SimplerConfig: reading. *)

\* the value of a metadata field
MetaValue(node, key) ==
    CASE key = K_owner -> IF node.meta.owner = 0 THEN NoneV ELSE NodeRef(node.meta.owner)
      [] key = K_back -> IF node.meta.back = 0 THEN NoneV ELSE NodeRef(node.meta.back)
      [] key = K_root -> NodeRef(node.meta.root)
      [] key = K_sub_path -> [t |-> "tuple", path |-> node.meta.sub_path]
      [] key = K_modifier ->
           IF node.meta.modifier = NoName THEN NoneV ELSE Str_(node.meta.modifier)
      [] key = K_key -> IF node.meta.key = NoName THEN NoneV ELSE Str_(node.meta.key)

\* a get_value that looks at the stored data and never at __meta__
get_value_of_data(ns, self, key, default_value) ==
    LET kt == __key_transform__(key)
    IN  IF kt.err # "" THEN Raise(ns, kt.err)
        ELSE IF InData(ns[self], kt.key) THEN Return(ns, DataAt(ns[self], kt.key))
        ELSE Return(ns, default_value)

\* get_value(key, default_value).  The values of the type modifier's implicit
\* fields are objects built outside the tree ([t |-> "object"]).
get_value(ns, self, key, default_value) ==
    LET kt == __key_transform__(key)
    IN  IF kt.err # "" THEN Raise(ns, kt.err)
        ELSE IF kt.key \in MetaKeys THEN Return(ns, MetaValue(ns[self], kt.key))
        ELSE IF have_type_modifier(ns[self]) /\ kt.key \in implicit_fields
        THEN Return(ns, [t |-> "object"])
        ELSE IF InData(ns[self], kt.key) THEN Return(ns, DataAt(ns[self], kt.key))
        ELSE Return(ns, default_value)

\* the sentinel of __getitem__ and setdefault
test_item == [t |-> "test_item"]

\* setdefault: for a key that get_value does not find, the call
\* self.set_value(default) lacks the argument `value` and raises TypeError
setdefault(ns, self, key, default) ==
    IF ns[self].immutable THEN Raise(ns, "ImmutableConfiguration")
    ELSE LET g == get_value(ns, self, key, test_item)
         IN  IF g.err # "" THEN g
             ELSE IF g.ret # test_item THEN g
             ELSE Raise(ns, "TypeError")

\* get_section
get_section(ns, self, key) ==
    LET kt == __key_transform__(key)
    IN  IF kt.err # "" THEN Raise(ns, kt.err)
        ELSE IF kt.key \in ns[self].sections
        THEN IF InData(ns[self], kt.key) THEN Return(ns, DataAt(ns[self], kt.key))
             ELSE Raise(ns, "KeyError")
        ELSE IF kt.key \in MetaKeys THEN Raise(ns, "KeyError")
        ELSE IF InData(ns[self], kt.key) THEN Raise(ns, "KeyError")
        ELSE LET a == add_section(ns, self, key, NoName)
             IN  IF a.err # "" THEN a ELSE Return(a.nodes, NodeRef(a.ret))

RECURSIVE GlobalsOwner(_, _, _)

\* a search that looks at the globals section of the root alone
GlobalsOwner_of_root(ns, conf, key) ==
    IF conf = 0 THEN 0
    ELSE IF conf = ns[conf].meta.root
    THEN IF /\ has_section(ns[conf], K_globals)
            /\ InData(ns[conf], K_globals)
            /\ DataAt(ns[conf], K_globals).t = "node"
            /\ InData(ns[DataAt(ns[conf], K_globals).id], key)
         THEN conf ELSE 0
    ELSE GlobalsOwner(ns, ns[conf].meta.root, key)

\* the loop of __getitem__ over the owners' globals sections, from conf upwards:
\* the node whose globals section binds key, or 0
GlobalsOwner(ns, conf, key) ==
    IF conf = 0 THEN 0
    ELSE IF /\ has_section(ns[conf], K_globals)
            /\ InData(ns[conf], K_globals)
            /\ DataAt(ns[conf], K_globals).t = "node"
            /\ InData(ns[DataAt(ns[conf], K_globals).id], key)
    THEN conf
    ELSE GlobalsOwner(ns, ns[conf].meta.owner, key)

\* a read that looks at the node's own bindings alone
__getitem___without_globals(ns, self, key) ==
    LET g == get_value(ns, self, key, test_item)
    IN  IF g.err # "" THEN g
        ELSE IF g.ret # test_item THEN g
        ELSE get_section(ns, self, key)

\* __getitem__ with a single key
__getitem__(ns, self, key) ==
    LET g == get_value(ns, self, key, test_item)
        kt == __key_transform__(key)
        c == GlobalsOwner(ns, self, kt.key)
    IN  IF g.err # "" THEN g
        ELSE IF g.ret # test_item THEN g
        ELSE IF c # 0
        THEN get_value(ns, DataAt(ns[c], K_globals).id, key, test_item)
        ELSE get_section(ns, self, key)

\* cur[k] for whatever cur is: a node takes __getitem__, a string takes an
\* index, and no other stored scalar can be subscripted
Subscript(ns, cur, k) ==
    IF cur.t = "node" THEN __getitem__(ns, cur.id, k)
    ELSE IF cur.t = "str" /\ k.t = "int"
    THEN IF k.n >= 0 /\ k.n < Len(cur.s) THEN Return(ns, Str_(<< cur.s[k.n + 1] >>))
         ELSE IF k.n < 0 /\ -k.n <= Len(cur.s)
         THEN Return(ns, Str_(<< cur.s[Len(cur.s) + k.n + 1] >>))
         ELSE Raise(ns, "IndexError")
    ELSE Raise(ns, "TypeError")

RECURSIVE SubscriptAll(_, _, _), SubscriptAll_from_self(_, _, _, _)

\* a loop that resolves every element of the tuple against the node itself
SubscriptAll_from_self(ns, self, cur, key) ==
    IF key = << >> THEN Return(ns, cur)
    ELSE With(Subscript(ns, self, key[1]), LAMBDA r :
             IF r.err # "" THEN r ELSE SubscriptAll_from_self(r.nodes, self, r.ret, Tail(key)))

\* for k in key: cur = cur[k]
SubscriptAll(ns, cur, key) ==
    IF key = << >> THEN Return(ns, cur)
    ELSE With(Subscript(ns, cur, key[1]), LAMBDA r :
             IF r.err # "" THEN r ELSE SubscriptAll(r.nodes, r.ret, Tail(key)))

\* a tuple access whose elements are all looked up in the node itself
__getitem___of_tuple_flat(ns, self, key) ==
    SubscriptAll_from_self(ns, NodeRef(self), NodeRef(self), key)

\* __getitem__ with a tuple of single keys
__getitem___of_tuple(ns, self, key) == SubscriptAll(ns, NodeRef(self), key)

----------------------------------------------------------------------------
(* The immutability overlay. *)

\* the orders in which a set can be iterated
Orderings(S) ==
    { p \in [1..Cardinality(S) -> S] : \A i, j \in DOMAIN p : p[i] = p[j] => i = j }

RECURSIVE set_immutable(_, _, _, _), FreezeSections(_, _, _)

\* a set_immutable that descends into the sections whatever `recursive` is
set_immutable_deep(ns, self, recursive, from_root) ==
    IF ns[self].immutable THEN { Raise(ns, "ImmutableConfiguration") }
    ELSE IF from_root /\ self # ns[self].meta.root
    THEN set_immutable(ns, ns[self].meta.root, TRUE, FALSE)
    ELSE UNION { FreezeSections([ns EXCEPT ![self].immutable = TRUE], self, p) :
                 p \in Orderings(ns[self].sections) }

\* set_immutable: the set of results the call can have, one for each order in
\* which `for s in self.__sections__` can run.  set_immutable is tagged
\* @mutator itself.
set_immutable(ns, self, recursive, from_root) ==
    IF ns[self].immutable THEN { Raise(ns, "ImmutableConfiguration") }
    ELSE IF from_root /\ self # ns[self].meta.root
    THEN set_immutable(ns, ns[self].meta.root, TRUE, FALSE)
    ELSE LET frozen == [ns EXCEPT ![self].immutable = TRUE]
         IN  IF recursive
             THEN UNION { FreezeSections(frozen, self, p) : p \in Orderings(ns[self].sections) }
             ELSE { Return(frozen, NoneV) }

\* for s in sections: self[s].set_immutable(recursive=True, from_root=False)
FreezeSections(ns, self, sections) ==
    IF sections = << >> THEN { Return(ns, NoneV) }
    ELSE LET c == __getitem__(ns, self, Str_(sections[1]))
         IN  IF c.err # "" THEN { c }
             ELSE IF c.ret.t # "node" THEN { Raise(c.nodes, "AttributeError") }
             ELSE UNION { IF r.err # "" THEN { r }
                          ELSE FreezeSections(r.nodes, self, Tail(sections)) :
                          r \in set_immutable(c.nodes, c.ret.id, TRUE, FALSE) }

----------------------------------------------------------------------------
(* store_engines.nestedcfg: the regular expressions. *)

\* \s
IsSpace(c) == c \in { " ", "\t", "\n", "\r", "\f" }

\* [ \t\r\f\v]
IsCommentSpace(c) == c \in { " ", "\t", "\r", "\f" }

IsBlank(c) == c = " "

\* [a-zA-Z_]
IsNameStart(c) == IsLetter(c) \/ c = "_"

\* [a-zA-Z0-9_]
IsNameChar(c) == IsNameStart(c) \/ IsDigit(c)

\* where a greedy P* that starts at position i of s stops
Span(s, i, P(_)) ==
    CHOOSE j \in i..(Len(s) + 1) :
        /\ j = Len(s) + 1 \/ ~P(s[j])
        /\ \A h \in i..(j - 1) : P(s[h])

\* where REGEXP_NAME, or nothing, ends when tried at position i of s
NameEnd(s, i) ==
    IF i <= Len(s) /\ IsNameStart(s[i]) THEN Span(s, i, IsNameChar) ELSE i

\* RE_COMMENT.match(c) is not None
RE_COMMENT(c) ==
    LET h == Span(c, 1, IsCommentSpace)
    IN  h = Len(c) + 1 \/ (c[h] = "#" /\ \A i \in h..Len(c) : c[i] # "\n")

\* RE_ALL_LINES.match(input_line).groupdict(), kind "none" when there is no match.
\* The data alternative is tried first and is not anchored at the end of the line.
RE_ALL_LINES(line) ==
    LET k0 == Span(line, 1, IsBlank)
        k1 == NameEnd(line, k0)
        k2 == Span(line, k1, IsSpace)
        e0 == Span(line, k2 + 1, IsSpace)
        e1 == NameEnd(line, e0)
        marked == k1 > k0 /\ k2 <= Len(line)
    IN  IF marked /\ line[k2] = ":"
        THEN [kind |-> "section", indent |-> k0 - 1, key |-> SubSeq(line, k0, k1 - 1),
              encoder |-> SubSeq(line, e0, e1 - 1)]
        ELSE IF marked /\ line[k2] = "=" /\ e0 <= Len(line)
        THEN [kind |-> "value", indent |-> k0 - 1, key |-> SubSeq(line, k0, k1 - 1),
              value |-> From(line, e0)]
        ELSE IF RE_COMMENT(line) THEN [kind |-> "comment", comment |-> line]
        ELSE [kind |-> "none"]

----------------------------------------------------------------------------
(* store_engines.nestedcfg: _convert_from_string.  The texts of the model  *)
(* are built from letters, digits, spaces, quotes, signs and dots; of what *)
(* literal_eval reads, quoted strings, True, False, None and ... are kept. *)

\* s.strip() of a text that starts with a non-space
RECURSIVE Strip(_)
Strip(s) == IF s # << >> /\ IsSpace(s[Len(s)]) THEN Strip(SubSeq(s, 1, Len(s) - 1)) ELSE s

IsDigits(s) == s # << >> /\ \A i \in DOMAIN s : IsDigit(s[i])

Signed(s) == s # << >> /\ s[1] \in { "-", "+" }

Unsigned(s) == IF Signed(s) THEN Tail(s) ELSE s

\* int(text) succeeds
IsIntText(s) == IsDigits(Unsigned(Strip(s)))

IntOfText(s) ==
    LET t == Strip(s)
    IN  Int_(IF Signed(t) /\ t[1] = "-" THEN 0 - DigitsToNat(Tail(t))
             ELSE DigitsToNat(Unsigned(t)))

\* float(text) succeeds: digits with one dot
IsFloatText(s) ==
    LET u == Unsigned(Strip(s))
    IN  /\ \E i \in DOMAIN u : u[i] = "."
        /\ \E i \in DOMAIN u : IsDigit(u[i])
        /\ \A i, j \in DOMAIN u : u[i] = "." /\ u[j] = "." => i = j
        /\ \A i \in DOMAIN u : IsDigit(u[i]) \/ u[i] = "."

RECURSIVE DropLeadingZeros(_), DropTrailingZeros(_)
DropLeadingZeros(s) ==
    IF Len(s) > 1 /\ s[1] = "0" THEN DropLeadingZeros(Tail(s)) ELSE s

DropTrailingZeros(s) ==
    IF Len(s) > 1 /\ s[Len(s)] = "0" THEN DropTrailingZeros(SubSeq(s, 1, Len(s) - 1)) ELSE s

\* the float, kept as the text repr() gives it
FloatOfText(s) ==
    LET t == Strip(s)
        u == Unsigned(t)
        d == CHOOSE i \in DOMAIN u : u[i] = "."
        whole == IF d = 1 THEN << "0" >> ELSE DropLeadingZeros(SubSeq(u, 1, d - 1))
        frac == IF d = Len(u) THEN << "0" >> ELSE DropTrailingZeros(From(u, d + 1))
        neg == Signed(t) /\ t[1] = "-"
    IN  [t |-> "float", s |-> (IF neg THEN << "-" >> ELSE << >>) \o whole \o << "." >> \o frac]

IsQuoted(s) ==
    /\ Len(s) >= 2
    /\ s[1] \in { "'", "\"" }
    /\ s[Len(s)] = s[1]
    /\ \A i \in 2..(Len(s) - 1) : s[i] \notin { "'", "\"", "\\" }

W_True == << "T", "r", "u", "e" >>
W_False == << "F", "a", "l", "s", "e" >>
W_None == << "N", "o", "n", "e" >>
W_Ellipsis == << ".", ".", "." >>

\* literal_eval(text) succeeds
IsLiteralText(s) == IsQuoted(Strip(s)) \/ Strip(s) \in { W_True, W_False, W_None, W_Ellipsis }

LiteralOfText(s) ==
    LET t == Strip(s)
    IN  IF IsQuoted(t) THEN Str_(SubSeq(t, 2, Len(t) - 1))
        ELSE IF t = W_None THEN NoneV
        ELSE IF t = W_Ellipsis THEN [t |-> "ellipsis"]
        ELSE [t |-> "bool", b |-> t = W_True]

\* BASE_TYPES = int, float, literal_eval, str: the first that accepts wins
_convert_from_string(value) ==
    IF IsIntText(value) THEN IntOfText(value)
    ELSE IF IsFloatText(value) THEN FloatOfText(value)
    ELSE IF IsLiteralText(value) THEN LiteralOfText(value)
    ELSE Str_(value)

----------------------------------------------------------------------------
(* store_engines.nestedcfg: the Writer, and SimplerConfig.__dump__. *)

\* Writer.indent_spaces
indent_spaces == 4

\* write_indent
write_indent(current_indent) == [ i \in 1..(current_indent * indent_spaces) |-> " " ]

\* start_section: the line it writes
start_section(current_indent, key, encoder) ==
    write_indent(current_indent) \o key
        \o (IF encoder # NoName THEN << ":", " " >> \o encoder ELSE << ":" >>)

\* write_key_value: the line it writes
write_key_value(current_indent, key, value) ==
    write_indent(current_indent) \o key \o << " ", "=", " " >> \o StrOf(value)

\* write_comment: the lines it writes, never indented
write_comment(comment) ==
    LET comments_list == SplitLines(comment)
    IN  [ i \in DOMAIN comments_list |->
            IF RE_COMMENT(comments_list[i]) THEN comments_list[i]
            ELSE << "#", " " >> \o comments_list[i] ]

RECURSIVE __dump__(_, _, _), DumpFrom(_, _, _, _)

\* __dump__: the lines written for node self at the Writer's current indent;
\* when it raises, the lines written before it raised
__dump__(ns, self, current_indent) == DumpFrom(ns, self, current_indent, 1)

\* the loop of __dump__ from the i-th entry of __order__ on
DumpFrom(ns, self, current_indent, i) ==
    IF i > Len(ns[self].order) THEN [err |-> "", lines |-> << >>]
    ELSE
    LET item == ns[self].order[i]
        rest == DumpFrom(ns, self, current_indent, i + 1)
        v == DataAt(ns[self], item.info)
        sub == __dump__(ns, v.id, current_indent + 1)
        Then(lines) == [err |-> rest.err, lines |-> lines \o rest.lines]
    IN  IF item.type = "comment" THEN Then(write_comment(item.info))
        ELSE IF ~InData(ns[self], item.info) THEN rest
        ELSE IF has_section(ns[self], item.info)
        THEN IF v.t # "node" THEN [err |-> "AttributeError", lines |-> << >>]
             ELSE IF sub.err # ""
             THEN [err |-> sub.err,
                   lines |-> << start_section(current_indent, item.info,
                                              ns[v.id].meta.modifier) >> \o sub.lines]
             ELSE Then(<< start_section(current_indent, item.info, ns[v.id].meta.modifier) >>
                       \o sub.lines)
        ELSE Then(<< write_key_value(current_indent, item.info, v) >>)

\* dumps(): the text as its lines
dumps(ns, self) == __dump__(ns, self, 0)

----------------------------------------------------------------------------
(* store_engines.nestedcfg: the Parser. *)

\* a loop that never pops: the scope on top stays open
PopTo_never(stack, indent) == stack

\* the while loop of __update_indent; << >> when the stack ran empty
RECURSIVE PopTo(_, _)
PopTo(stack, indent) ==
    IF stack = << >> THEN << >>
    ELSE IF stack[Len(stack)].indent = indent THEN stack
    ELSE PopTo(SubSeq(stack, 1, Len(stack) - 1), indent)

\* an __update_indent that opens a scope at any deeper indent, pending section
\* or not
__update_indent_lenient(stack, pending, indent) ==
    IF indent > stack[Len(stack)].indent
    THEN [err |-> "",
          conf_stack |-> Append(stack, [indent |-> indent,
                                        conf |-> IF pending # 0 THEN pending
                                                 ELSE stack[Len(stack)].conf]),
          new_conf |-> 0]
    ELSE LET popped == PopTo(stack, indent)
         IN  [err |-> IF popped = << >> THEN "ValueError" ELSE "",
              conf_stack |-> popped, new_conf |-> 0]

\* __update_indent
__update_indent(stack, pending, indent) ==
    IF indent > stack[Len(stack)].indent
    THEN IF pending # 0
         THEN [err |-> "", conf_stack |-> Append(stack, [indent |-> indent, conf |-> pending]),
               new_conf |-> 0]
         ELSE [err |-> "ValueError", conf_stack |-> stack, new_conf |-> pending]
    ELSE LET popped == PopTo(stack, indent)
         IN  [err |-> IF popped = << >> THEN "ValueError" ELSE "",
              conf_stack |-> popped, new_conf |-> 0]

\* a __get_cur_conf that gives the node loaded into, whatever scope is open
__get_cur_conf_of_bottom(stack, pending) == stack[1].conf

\* __get_cur_conf
__get_cur_conf(stack, pending) ==
    IF pending # 0 THEN pending ELSE stack[Len(stack)].conf

\* the Parser after a line: the arena, the exception raised, the stack, the slot
Parsed(ns, e, stack, pending) ==
    [nodes |-> ns, err |-> e, conf_stack |-> stack, new_conf |-> pending]

\* a parse_line whose comment lines drop the pending section
parse_line_closing_on_comment(ns, stack, pending, input_line) ==
    With(RE_ALL_LINES(input_line), LAMBDA d :
        IF d.kind = "none" THEN Parsed(ns, "Exception", stack, pending)
        ELSE IF d.kind = "comment"
        THEN With(add_comment(ns, __get_cur_conf(stack, pending), d.comment), LAMBDA c :
                 Parsed(c.nodes, c.err, stack, 0))
        ELSE
        With(__update_indent(stack, pending, d.indent), LAMBDA u :
            IF u.err # "" THEN Parsed(ns, u.err, u.conf_stack, u.new_conf)
            ELSE
            With(__get_cur_conf(u.conf_stack, u.new_conf), LAMBDA conf :
                IF d.kind = "section"
                THEN With(add_section(ns, conf, Str_(d.key), d.encoder), LAMBDA a :
                         Parsed(a.nodes, a.err, u.conf_stack,
                                IF a.err = "" THEN a.ret ELSE u.new_conf))
                ELSE With(_convert_from_string(d.value), LAMBDA value :
                     With(set_value(ns, conf, Str_(d.key), value), LAMBDA w :
                         Parsed(w.nodes, w.err, u.conf_stack, u.new_conf))))))

\* parse_line
parse_line(ns, stack, pending, input_line) ==
    With(RE_ALL_LINES(input_line), LAMBDA d :
        IF d.kind = "none" THEN Parsed(ns, "Exception", stack, pending)
        ELSE IF d.kind = "comment"
        THEN With(add_comment(ns, __get_cur_conf(stack, pending), d.comment), LAMBDA c :
                 Parsed(c.nodes, c.err, stack, pending))
        ELSE
        With(__update_indent(stack, pending, d.indent), LAMBDA u :
            IF u.err # "" THEN Parsed(ns, u.err, u.conf_stack, u.new_conf)
            ELSE
            With(__get_cur_conf(u.conf_stack, u.new_conf), LAMBDA conf :
                IF d.kind = "section"
                THEN With(add_section(ns, conf, Str_(d.key), d.encoder), LAMBDA a :
                         Parsed(a.nodes, a.err, u.conf_stack,
                                IF a.err = "" THEN a.ret ELSE u.new_conf))
                ELSE With(_convert_from_string(d.value), LAMBDA value :
                     With(set_value(ns, conf, Str_(d.key), value), LAMBDA w :
                         Parsed(w.nodes, w.err, u.conf_stack, u.new_conf))))))

\* a line number counted from 0, as enumerate() gives it
LINE_from_zero(n) == n

\* the number in "[LINE {n+1}]" for the n of enumerate(self.fp)
LINE(n) == n + 1

\* Parser.parse from line n + 1 of the stream on: `line` is the number the
\* exception names, 0 when every line was read
RECURSIVE ParseFrom(_, _, _, _, _)
ParseFrom(ns, stack, pending, lines, n) ==
    IF n >= Len(lines) THEN [nodes |-> ns, err |-> "", ret |-> NoneV, line |-> 0]
    ELSE With(parse_line(ns, stack, pending, lines[n + 1]), LAMBDA r :
             IF r.err # ""
             THEN [nodes |-> r.nodes, err |-> "Exception", ret |-> NoneV, line |-> LINE(n)]
             ELSE ParseFrom(r.nodes, r.conf_stack, r.new_conf, lines, n + 1))

\* Parser(fp, conf).parse()
parse(ns, conf, lines) == ParseFrom(ns, << [indent |-> 0, conf |-> conf] >>, 0, lines, 0)

\* load and loads
load(ns, self, lines) ==
    IF ns[self].immutable
    THEN [nodes |-> ns, err |-> "ImmutableConfiguration", ret |-> NoneV, line |-> 0]
    ELSE parse(ns, self, lines)

----------------------------------------------------------------------------
(* SimplerConfig: the sequence view and copy. *)

\* __len__
__len__(ns, self) == Len(ns[self].data)

RECURSIVE YieldFrom(_, _, _, _, _)

\* a loop that passes over the indices that are not bound and yields no
\* placeholder for them
YieldFrom_without_gaps(ns, self, all_keys, i, max_key) ==
    IF i > max_key THEN Return(ns, << >>)
    ELSE IF i \notin all_keys THEN YieldFrom(ns, self, all_keys, i + 1, max_key)
    ELSE With(__getitem__(ns, self, Int_(i)), LAMBDA g :
             IF g.err # "" THEN Raise(g.nodes, g.err)
             ELSE With(YieldFrom(g.nodes, self, all_keys, i + 1, max_key), LAMBDA rest :
                      [nodes |-> rest.nodes, err |-> rest.err,
                       ret |-> IF rest.err # "" THEN NoneV ELSE << g.ret >> \o rest.ret]))

\* the loop of iter_as_list from index i on: what it yields, as a sequence
YieldFrom(ns, self, all_keys, i, max_key) ==
    IF i > max_key THEN Return(ns, << >>)
    ELSE IF i \notin all_keys
    THEN With(YieldFrom(ns, self, all_keys, i + 1, max_key), LAMBDA rest :
             [nodes |-> rest.nodes, err |-> rest.err,
              ret |-> IF rest.err # "" THEN NoneV ELSE << NoneV >> \o rest.ret])
    ELSE With(__getitem__(ns, self, Int_(i)), LAMBDA g :
             IF g.err # "" THEN Raise(g.nodes, g.err)
             ELSE With(YieldFrom(g.nodes, self, all_keys, i + 1, max_key), LAMBDA rest :
                      [nodes |-> rest.nodes, err |-> rest.err,
                       ret |-> IF rest.err # "" THEN NoneV ELSE << g.ret >> \o rest.ret]))

\* iter_as_list, run to its end as list() runs it: the sequence it yields, or
\* the exception it raises on the way.  int() is taken on the key after "list".
iter_as_list(ns, self) ==
    LET string_keys == [ i \in DOMAIN ns[self].data |-> ns[self].data[i].k ]
        all_keys == { IntOfText(From(k, Len(K_list) + 1)).n : k \in Range(string_keys) }
        max_key == CHOOSE m \in all_keys : \A n \in all_keys : n <= m
    IN  IF string_keys = << >> THEN Return(ns, << >>)
        ELSE IF \E k \in Range(string_keys) : ~StartsWith(k, K_list)
        THEN Raise(ns, "AssertionError")
        ELSE IF \E k \in Range(string_keys) : ~IsIntText(From(k, Len(K_list) + 1))
        THEN Raise(ns, "ValueError")
        ELSE YieldFrom(ns, self, all_keys, 0, max_key)

\* __iter__, consumed: iter_as_list is a generator function, so the call in the
\* try block returns a generator and raises nothing; what the generator raises,
\* it raises in the consumer, outside the try
__iter__(ns, self) == iter_as_list(ns, self)

\* copy(file_path=None, owner): the dump of self, loaded into a new object
\* built by cls(file_path, owner); owner 0 is None.  The objects of a copy that
\* raised are referenced by nobody and are left out of the arena.
copy(ns, self, owner) ==
    LET new == Len(ns) + 1
        ret == __init_private_data__(new, owner, IF owner = 0 THEN 0 ELSE ns[owner].meta.root,
                                     NoName, << >>, NoName)
    IN  With(dumps(ns, self), LAMBDA d :
            IF d.err # "" THEN Raise(ns, d.err)
            ELSE With(load(Append(ns, ret), new, d.lines), LAMBDA l :
                     IF l.err # "" THEN Raise(ns, l.err) ELSE Return(l.nodes, new)))

----------------------------------------------------------------------------
(* SimplerConfig: the file path and saving.  A file system is a function   *)
(* from paths to files; a call that writes returns the file system it      *)
(* leaves.                                                                 *)

\* the paths of the file system
Paths == { << "p" >>, << "q" >> }

\* no file at a path, and a file with its lines
NoFile == [exists |-> FALSE, lines |-> << >>]
File(lines) == [exists |-> TRUE, lines |-> lines]

\* the empty file system
NoFiles == [ path \in Paths |-> NoFile ]

\* the outcome of a call that can write a file
Saved(ns, fs, e) == [nodes |-> ns, files |-> fs, err |-> e]

\* get_file_path: self.__meta__["config_file_path"]
get_file_path(ns, self) ==
    IF ns[self].meta.config_file_path = NoPath THEN Raise(ns, "KeyError")
    ELSE Return(ns, ns[self].meta.config_file_path)

\* set_file_path
set_file_path(ns, self, file_path) ==
    IF ns[self].immutable THEN Raise(ns, "ImmutableConfiguration")
    ELSE Return([ns EXCEPT ![self].meta.config_file_path = file_path], NoneV)

RECURSIVE save(_, _, _, _)

\* save(file_path=None): None is NoneV.  open(file_path, "w+") empties the file
\* before dump writes, so a dump that raises leaves what it wrote until then.
save(ns, fs, self, file_path) ==
    IF self # ns[self].meta.root THEN save(ns, fs, ns[self].meta.root, NoneV)
    ELSE LET g == IF file_path = NoneV THEN get_file_path(ns, self)
                  ELSE Return(ns, file_path)
             d == dumps(ns, self)
         IN  IF g.err # "" THEN Saved(ns, fs, g.err)
             ELSE IF g.ret = NoneV THEN Saved(ns, fs, "Exception")
             ELSE Saved(ns, [fs EXCEPT ![g.ret.s] = File(d.lines)], d.err)

RECURSIVE save_as(_, _, _, _)

\* save_as(file_path)
save_as(ns, fs, self, file_path) ==
    IF ns[self].immutable THEN Saved(ns, fs, "ImmutableConfiguration")
    ELSE IF self # ns[self].meta.root THEN save_as(ns, fs, ns[self].meta.root, file_path)
    ELSE LET s == set_file_path(ns, self, file_path)
         IN  IF s.err # "" THEN Saved(ns, fs, s.err)
             ELSE save(s.nodes, fs, self, NoneV)

----------------------------------------------------------------------------
(* The state machine: a tree under the public operations. *)

\* SimplerConfig(): a lone root
EmptyRoot == << __init_private_data__(1, 0, 0, NoName, << >>, NoName) >>

\* whether node i hangs, through its owners' data, under a root
RECURSIVE IsAttached(_, _)
IsAttached(ns, i) ==
    LET o == ns[i].meta.owner
    IN  \/ o = 0
        \/ /\ InData(ns[o], ns[i].meta.key)
           /\ DataAt(ns[o], ns[i].meta.key) = NodeRef(i)
           /\ IsAttached(ns, o)

\* the nodes a caller reaches from the root
Attached(ns) == { i \in DOMAIN ns : IsAttached(ns, i) }

\* the number of order entries of the nodes i..Len(ns)
RECURSIVE OrderEntries(_, _)
OrderEntries(ns, i) ==
    IF i > Len(ns) THEN 0 ELSE Len(ns[i].order) + OrderEntries(ns, i + 1)

WithinBounds(ns) ==
    /\ Len(ns) <= MaxNodes
    /\ OrderEntries(ns, 1) <= MaxOrder

TreeInit ==
    /\ nodes = EmptyRoot
    /\ wholeFrozen = FALSE
    /\ fp = << >>
    /\ lineno = 0
    /\ conf_stack = << >>
    /\ new_conf = 0
    /\ perr = 0
    /\ files = NoFiles

\* the arena after a call, whether it returned or raised
Becomes(ns) ==
    /\ WithinBounds(ns)
    /\ nodes' = ns
    /\ UNCHANGED << wholeFrozen, parserVars, files >>

\* node[key] = value
SetItem(self, key, value) == Becomes(set_value(nodes, self, key, value).nodes)

\* node.add_section(key)
AddSection(self, key) == Becomes(add_section(nodes, self, key, NoName).nodes)

\* del node[key]
DelItem(self, key) == Becomes(__delitem__(nodes, self, key).nodes)

\* node.add_comment(comment)
AddComment(self, comment) == Becomes(add_comment(nodes, self, comment).nodes)

\* node[key], read
GetItem(self, key) == Becomes(__getitem__(nodes, self, key).nodes)

\* node.update(mapping)
Update(self, items) == Becomes(update(nodes, self, items).nodes)

\* node.loads(text)
Loads(self, lines) == Becomes(load(nodes, self, lines).nodes)

\* node.set_immutable(recursive, from_root)
SetImmutable(self, recursive, from_root) ==
    \E r \in set_immutable(nodes, self, recursive, from_root) :
        /\ nodes' = r.nodes
        /\ wholeFrozen' = (wholeFrozen \/ (recursive /\ from_root /\ r.err = ""))
        /\ UNCHANGED << parserVars, files >>

----------------------------------------------------------------------------
(* The inputs of the tree specifications. *)

S_a == Str_(<< "a" >>)
S_A == Str_(<< "A" >>)
S_b == Str_(<< "b" >>)
S_s == Str_(<< "s" >>)

\* {'a': 1, 'A': 2}: its second entry collides with its first
CollidingDict == [t |-> "dict", items |-> << [k |-> S_a, v |-> Int_(1)], [k |-> S_A, v |-> Int_(2)] >>]

\* {'b': 1}
SmallDict == [t |-> "dict", items |-> << [k |-> S_b, v |-> Int_(1)] >>]

\* [1, {'a': 1, 'A': 2}]: a sequence whose second element fails
FailingList == [t |-> "list", items |-> << Int_(1), CollidingDict >>]

\* a class C of module m
SomeClass == [t |-> "type", name |-> << "C" >>, module |-> << "m" >>]

TreeKeys == { S_a, S_A, S_b }

TreeValues == { Int_(1), Str_(<< "5" >>), CollidingDict, SomeClass }

TreeComments == { << "c" >> }

TreeTexts ==
    { << << "b", " ", "=", " ", "1" >>, << "b", " ", "=", " ", "2" >> >>,
      << << "s", ":" >>, << " ", "a", " ", "=", " ", "7" >> >> }

TreeNext ==
    \E self \in Attached(nodes) :
        \/ \E key \in TreeKeys, value \in TreeValues : SetItem(self, key, value)
        \/ \E key \in TreeKeys : AddSection(self, key)
        \/ \E key \in TreeKeys : DelItem(self, key)
        \/ \E comment \in TreeComments : AddComment(self, comment)
        \/ \E key \in TreeKeys : GetItem(self, key)
        \/ Update(self, CollidingDict.items)
        \/ \E lines \in TreeTexts : Loads(self, lines)

Spec == TreeInit /\ [][TreeNext]_vars

----------------------------------------------------------------------------
(* Views of a tree, for the round-trip properties. *)

\* SimplerConfig().loads(text): the text read into a fresh root
Reloaded(lines) == load(EmptyRoot, 1, lines)

\* the keys of node i with the scalar bound to each, or the tree of the section
RECURSIVE TreeOf(_, _)
TreeOf(ns, i) ==
    { [k |-> e.k,
       v |-> IF e.k \in ns[i].sections /\ e.v.t = "node"
             THEN [t |-> "section", tree |-> TreeOf(ns, e.v.id)]
             ELSE e.v] : e \in Range(ns[i].data) }

\* what __dump__ walks of node i in order: its comments and bound keys, and the
\* same for each section at the place of its key
RECURSIVE Placement(_, _)
Placement(ns, i) ==
    LET live == SelectSeq(ns[i].order,
                          LAMBDA e : e.type = "comment" \/ InData(ns[i], e.info))
    IN  [ j \in DOMAIN live |->
            IF live[j].type = "comment" THEN [type |-> "comment"]
            ELSE [type |-> "key", key |-> live[j].info,
                  under |-> IF DataAt(ns[i], live[j].info).t = "node"
                            THEN Placement(ns, DataAt(ns[i], live[j].info).id)
                            ELSE << >>] ]

----------------------------------------------------------------------------
(* C1.  Round trip of structure and values: the dump of every reachable    *)
(* tree loads into a fresh root without error, and the loaded tree has the *)
(* same keys, the same scalars and the same sections at every level.       *)
C1_RoundTripOfTree ==
    LET d == dumps(nodes, 1)
        r == Reloaded(d.lines)
    IN  /\ d.err = ""
        /\ r.err = ""
        /\ TreeOf(r.nodes, 1) = TreeOf(nodes, 1)

(* C2.  Round trip of comment placement: when the dump of a reachable tree *)
(* loads into a fresh root, every comment is on the node it was on and at  *)
(* the same place among that node's keys.                                  *)
C2_RoundTripOfComments ==
    LET d == dumps(nodes, 1)
        r == Reloaded(d.lines)
    IN  (d.err = "" /\ r.err = "") => Placement(r.nodes, 1) = Placement(nodes, 1)

----------------------------------------------------------------------------
(* Key collisions. *)

S_args == Str_(K_args)
S_ARGS == Str_(<< "A", "R", "G", "S" >>)

\* raw keys in classes: the keys of a class differ in case, in a separator, or
\* as n and 'list<n>', and are to normalize to one identifier
CollisionClasses ==
    { { S_a, S_A },
      { Str_(<< "a", "-", "b" >>), Str_(<< "a", "_", "b" >>), Str_(<< "a", " ", "b" >>),
        Str_(<< "A", ".", "B" >>) },
      { Int_(0), Str_(K_list \o << "0" >>) },
      { S_args, S_ARGS } }

CollisionKeys == UNION CollisionClasses

\* [1]
ListOfOne == [t |-> "list", items |-> << Int_(1) >>]

FirstValues == { Int_(1), ListOfOne }

SecondValues == { Int_(2), SmallDict }

\* k1 and k2 are different keys of one class
Collide(k1, k2) == k1 # k2 /\ \E c \in CollisionClasses : k1 \in c /\ k2 \in c

\* set(k1, v1) succeeds on node self, and then set(k2, v2) is refused with the
\* error e, changes nothing, and leaves get(k1) as it was: v1 itself for a
\* scalar on a node without modifier
RefusedWith(self, k1, v1, k2, v2, e) ==
    \A r1 \in { set_value(nodes, self, k1, v1) } :
        r1.err = "" =>
            \A r2 \in { set_value(r1.nodes, self, k2, v2) } :
                /\ r2.err = e
                /\ r2.nodes = r1.nodes
                /\ get_value(r2.nodes, self, k1, NoneV) = get_value(r1.nodes, self, k1, NoneV)
                /\ (v1.t = "int" /\ ~have_type_modifier(nodes[self])) =>
                       get_value(r2.nodes, self, k1, NoneV).ret = v1

\* the error of the modifier's encode_field for (k2, v2) on node self, "" when
\* the node has no modifier or the hook accepts the pair
EncodeError(self, k2, v2) ==
    IF have_type_modifier(nodes[self])
    THEN encode_field(__key_transform__(k2).key, v2).err
    ELSE ""

(* C5, as stated.  On every node, for keys k1 # k2 that normalize to one   *)
(* identifier, set(k1, v1) then set(k2, v2) fails on the second call with  *)
(* the key-collision error (KeyError), and get(k1) still returns v1.       *)
C5_CollisionIsKeyError ==
    \A self \in Attached(nodes), k1 \in CollisionKeys, k2 \in CollisionKeys :
        Collide(k1, k2) =>
            \A v1 \in FirstValues, v2 \in SecondValues :
                RefusedWith(self, k1, v1, k2, v2, "KeyError")

(* C5, amended.  The second call always fails and changes nothing, and     *)
(* get(k1) is as before it.  Its error is the key-collision error unless   *)
(* the node has a modifier whose encode_field rejects (k2, v2): that hook  *)
(* runs before the collision test, and its error is the one raised.        *)
C5_CollisionIsRefused ==
    \A self \in Attached(nodes), k1 \in CollisionKeys, k2 \in CollisionKeys :
        Collide(k1, k2) =>
            \A v1 \in FirstValues, v2 \in SecondValues :
                RefusedWith(self, k1, v1, k2, v2,
                            IF EncodeError(self, k2, v2) # "" THEN EncodeError(self, k2, v2)
                            ELSE "KeyError")

\* a node without modifier holds 'a', and a node with the type modifier is in
\* the tree: both cases of the collision are at hand
C5_Witness ==
    /\ InData(nodes[1], << "a" >>)
    /\ set_value(nodes, 1, S_A, Int_(2)).err = "KeyError"
    /\ \E self \in Attached(nodes) :
          /\ have_type_modifier(nodes[self])
          /\ set_value(set_value(nodes, self, S_args, ListOfOne).nodes,
                       self, S_ARGS, Int_(2)).err = "TypeError"

----------------------------------------------------------------------------
(* C6.  No silent overwrite: in every step, a key bound in a node's data   *)
(* stays bound to the same value, unless the step is the delete of that    *)
(* key on that node.                                                       *)
C6_NoSilentOverwrite ==
    [][ \A i \in DOMAIN nodes : \A k \in DataKeys(nodes[i]) :
           \/ /\ InData(nodes'[i], k)
              /\ DataAt(nodes'[i], k) = DataAt(nodes[i], k)
           \/ \E key \in TreeKeys :
                 /\ __key_transform__(key).key = k
                 /\ nodes' = __delitem__(nodes, i, key).nodes ]_vars

\* 'a' is bound to '5' on the root, and a set of 'A' to 1 has been refused
C6_Witness ==
    /\ InData(nodes[1], << "a" >>)
    /\ DataAt(nodes[1], << "a" >>) = Str_(<< "5" >>)
    /\ set_value(nodes, 1, S_A, Int_(1)) = Raise(nodes, "KeyError")

----------------------------------------------------------------------------
(* C7.  Atomic failure of set: whenever set(key, value) fails on a node,   *)
(* for a scalar, a mapping, a sequence or a class, every node of the tree  *)
(* is as it was before the call.                                           *)
C7_FailedSetChangesNothing ==
    \A self \in Attached(nodes), key \in TreeKeys,
       value \in TreeValues \cup { FailingList } :
        LET r == set_value(nodes, self, key, value)
        IN  r.err # "" => SubSeq(r.nodes, 1, Len(nodes)) = nodes

----------------------------------------------------------------------------
(* The state machine of the immutability overlay: a tree that is written,  *)
(* read and frozen.                                                        *)

FreezeKeys == { S_a, S_b }

FreezeValues == { Int_(1), SmallDict }

\* "b = 2"
FreezeTexts == { << << "b", " ", "=", " ", "2" >> >> }

FreezeNext ==
    \E self \in Attached(nodes) :
        \/ \E key \in FreezeKeys, value \in FreezeValues : SetItem(self, key, value)
        \/ \E key \in FreezeKeys : AddSection(self, key)
        \/ \E key \in FreezeKeys : DelItem(self, key)
        \/ \E key \in FreezeKeys : GetItem(self, key)
        \/ \E lines \in FreezeTexts : Loads(self, lines)
        \/ \E recursive \in BOOLEAN, from_root \in BOOLEAN :
              SetImmutable(self, recursive, from_root)

SpecFreeze == TreeInit /\ [][FreezeNext]_vars

\* the call raised ImmutableConfiguration and changed nothing
RefusedAsImmutable(ns, r) == r.err = "ImmutableConfiguration" /\ r.nodes = ns

\* set, add_section, load and the autovivifying read are refused on node m
Blocked(ns, m) ==
    /\ \A key \in FreezeKeys, value \in FreezeValues :
          RefusedAsImmutable(ns, set_value(ns, m, key, value))
    /\ \A key \in FreezeKeys : RefusedAsImmutable(ns, add_section(ns, m, key, NoName))
    /\ \A lines \in FreezeTexts : RefusedAsImmutable(ns, load(ns, m, lines))
    /\ \A key \in FreezeKeys :
          __key_transform__(key).key \notin DataKeys(ns[m]) =>
              RefusedAsImmutable(ns, __getitem__(ns, m, key))

(* C3.  Whole-tree freeze: once set_immutable(recursive=True,              *)
(* from_root=True) has returned on a node of the tree, every value of      *)
(* every node is read as it is stored, and every set, add_section, delete  *)
(* and load on every node, the delete being of a bound key, raises the     *)
(* immutability error and changes nothing.                                 *)
C3_WholeTreeFrozen ==
    wholeFrozen =>
        \A self \in Attached(nodes) :
            /\ \A k \in DataKeys(nodes[self]) :
                  get_value(nodes, self, Str_(k), NoneV) = Return(nodes, DataAt(nodes[self], k))
            /\ Blocked(nodes, self)
            /\ \A key \in FreezeKeys :
                  __key_transform__(key).key \in DataKeys(nodes[self]) =>
                      RefusedAsImmutable(nodes, __delitem__(nodes, self, key))

----------------------------------------------------------------------------
(* C4.  Freeze locality. *)

\* node i and the nodes under it
RECURSIVE Subtree(_, _)
Subtree(ns, i) ==
    { i } \cup UNION { Subtree(ns, e.v.id) : e \in { x \in Range(ns[i].data) : x.v.t = "node" } }

\* the nodes a freeze of node N is to reach
Scope(ns, N, recursive) == IF recursive THEN Subtree(ns, N) ELSE { N }

\* the arena with every node's stubs taken off
Thawed(ns) == [ i \in DOMAIN ns |-> [ns[i] EXCEPT !.immutable = FALSE] ]

\* the call gives on the arena `frozen` what it gives on the arena `ns`
SameOutcome(ns, frozen, before, after) ==
    /\ after.err = before.err
    /\ after.ret = before.ret
    /\ Thawed(after.nodes) = Thawed(before.nodes)
    /\ \A i \in DOMAIN after.nodes :
          after.nodes[i].immutable = (i \in DOMAIN frozen /\ frozen[i].immutable)

\* set, add_section, load and the autovivifying read on node m do on the arena
\* `frozen` what they do on the arena `ns`
Unaffected(ns, frozen, m) ==
    /\ \A key \in FreezeKeys, value \in FreezeValues :
          SameOutcome(ns, frozen, set_value(ns, m, key, value),
                      set_value(frozen, m, key, value))
    /\ \A key \in FreezeKeys :
          SameOutcome(ns, frozen, add_section(ns, m, key, NoName),
                      add_section(frozen, m, key, NoName))
    /\ \A lines \in FreezeTexts :
          LET before == load(ns, m, lines)
              after == load(frozen, m, lines)
          IN  SameOutcome(ns, frozen, before, after) /\ after.line = before.line
    /\ \A key \in FreezeKeys :
          SameOutcome(ns, frozen, __getitem__(ns, m, key), __getitem__(frozen, m, key))

(* C4.  When set_immutable(recursive, from_root=False) returns on node N,  *)
(* it has changed nothing but the stubs of N (and, if recursive, of the    *)
(* nodes under N); set, add_section, load and autovivifying reads are      *)
(* refused on those nodes, and on every other node of the tree they do     *)
(* exactly what they did before the freeze.                                *)
C4_FreezeLocality ==
    \A N \in Attached(nodes), recursive \in BOOLEAN :
        \A r \in set_immutable(nodes, N, recursive, FALSE) :
            r.err = "" =>
                /\ Thawed(r.nodes) = Thawed(nodes)
                /\ \A m \in DOMAIN nodes :
                      r.nodes[m].immutable =
                          (nodes[m].immutable \/ m \in Scope(nodes, N, recursive))
                /\ \A m \in Scope(nodes, N, recursive) : Blocked(r.nodes, m)
                /\ \A m \in Attached(nodes) \ Scope(nodes, N, recursive) :
                      Unaffected(nodes, r.nodes, m)

\* a frozen section under a free root, with a free section of its own that
\* holds a value
C4_Witness ==
    \E N \in Attached(nodes), c \in Attached(nodes) :
        /\ nodes[N].immutable
        /\ nodes[N].meta.owner = 1
        /\ ~nodes[1].immutable
        /\ nodes[c].meta.owner = N
        /\ ~nodes[c].immutable
        /\ nodes[c].data # << >>

----------------------------------------------------------------------------
(* C21, C22.  The reach of a freeze. *)

(* C21.  Recursive freeze reaches every child: after a call                *)
(* set_immutable(recursive=True, from_root=False) on node N, N and every   *)
(* node under N are immutable, whichever of them were immutable before.    *)
C21_RecursiveFreezeReachesAll ==
    \A N \in Attached(nodes) :
        \A r \in set_immutable(nodes, N, TRUE, FALSE) :
            \A m \in Subtree(nodes, N) : r.nodes[m].immutable

(* C22.  from_root implies recursive: after a call                         *)
(* set_immutable(recursive=False, from_root=True) that returns, on any     *)
(* node, the root included, every node of the tree is immutable.           *)
C22_FromRootImpliesRecursive ==
    \A N \in Attached(nodes) :
        \A r \in set_immutable(nodes, N, FALSE, TRUE) :
            r.err = "" => \A m \in Attached(nodes) : r.nodes[m].immutable

----------------------------------------------------------------------------
(* The state machine of the Parser: a text read line by line into a fresh  *)
(* root.  lineno is the number of lines read without error, perr the line  *)
(* number of the exception parse() raised, 0 while it has raised none.     *)

\* the lines of the texts
L_s0 == << "s", ":" >>
L_t1 == << " ", "t", ":" >>
L_a0 == << "a", " ", "=", " ", "1" >>
L_a1 == << " ", "a", " ", "=", " ", "1" >>
L_a3 == << " ", " ", " ", "a", " ", "=", " ", "1" >>
L_b0 == << "b", " ", "=", " ", "2" >>
L_comment == << "#", " ", "c" >>
L_comment2 == << " ", " ", "#", " ", "c" >>
L_blank == << >>
L_bad == << "a" >>

ParseLines == { L_s0, L_t1, L_a0, L_a1, L_a3, L_b0, L_comment, L_comment2, L_blank, L_bad }

\* the texts of at most MaxLines lines
ParseTexts == UNION { [1..n -> ParseLines] : n \in 0..MaxLines }

\* the indents the lines can have, and one more
MaxIndent == 4

\* Parser(fp, conf) on a fresh root
ParseInit ==
    /\ nodes = EmptyRoot
    /\ wholeFrozen = FALSE
    /\ fp \in ParseTexts
    /\ lineno = 0
    /\ conf_stack = << [indent |-> 0, conf |-> 1] >>
    /\ new_conf = 0
    /\ perr = 0
    /\ files = NoFiles

\* a parse() that goes on with the next line after a line has failed
ParseStep_resuming ==
    /\ lineno < Len(fp)
    /\ \E r \in { parse_line(nodes, conf_stack, new_conf, fp[lineno + 1]) } :
          /\ nodes' = r.nodes
          /\ conf_stack' = r.conf_stack
          /\ new_conf' = r.new_conf
          /\ lineno' = lineno + 1
          /\ perr' = IF r.err # "" /\ perr = 0 THEN LINE(lineno) ELSE perr
    /\ UNCHANGED << wholeFrozen, fp, files >>

\* one turn of the loop of Parser.parse
ParseStep ==
    /\ perr = 0
    /\ lineno < Len(fp)
    /\ \E r \in { parse_line(nodes, conf_stack, new_conf, fp[lineno + 1]) } :
          /\ nodes' = r.nodes
          /\ conf_stack' = r.conf_stack
          /\ new_conf' = r.new_conf
          /\ lineno' = IF r.err = "" THEN lineno + 1 ELSE lineno
          /\ perr' = IF r.err = "" THEN 0 ELSE LINE(lineno)
    /\ UNCHANGED << wholeFrozen, fp, files >>

ParseNext == ParseStep

SpecParse == ParseInit /\ [][ParseNext]_vars

\* the first n lines of the text
Prefix(n) == SubSeq(fp, 1, n)

\* every node of the arena `had` is in the arena `has`, with its data and its
\* order at the start of what the node holds now
Contains(has, had) ==
    /\ Len(had) <= Len(has)
    /\ \A i \in DOMAIN had :
          /\ Len(had[i].data) <= Len(has[i].data)
          /\ SubSeq(has[i].data, 1, Len(had[i].data)) = had[i].data
          /\ Len(had[i].order) <= Len(has[i].order)
          /\ SubSeq(has[i].order, 1, Len(had[i].order)) = had[i].order
          /\ had[i].sections \subseteq has[i].sections

(* C8.  Partial effect of a failed parse: when parse() has raised at line  *)
(* n, no line after n - 1 counts as read, the tree holds what lines        *)
(* 1..n-1 made, in their order, and it is the tree that lines 1..n alone   *)
(* give: nothing of a later line is in it.                                 *)
C8_PartialEffect ==
    perr # 0 =>
        /\ lineno = perr - 1
        /\ Reloaded(Prefix(perr - 1)).err = ""
        /\ Contains(nodes, Reloaded(Prefix(perr - 1)).nodes)
        /\ nodes = Reloaded(Prefix(perr)).nodes
        /\ nodes = Reloaded(fp).nodes

\* line 2 of three has failed, line 1 has bound 'a', and line 3, "b = 2", is
\* not in the tree
C8_Witness ==
    /\ perr = 2
    /\ Len(fp) = 3
    /\ fp[3] = L_b0
    /\ InData(nodes[1], << "a" >>)
    /\ ~InData(nodes[1], << "b" >>)

(* C9.  Error localization: the line number parse() reports is the index,  *)
(* counted from 1 over all the lines of the text, comments and blank lines *)
(* included, of the first line that fails: the lines before it are read    *)
(* without error, and the text up to it is not.  loads() of the whole text *)
(* reports the same number.                                                *)
C9_ErrorLine ==
    /\ perr = 0 => Reloaded(Prefix(lineno)).err = ""
    /\ perr # 0 =>
          /\ perr \in 1..Len(fp)
          /\ Reloaded(Prefix(perr - 1)).err = ""
          /\ Reloaded(Prefix(perr)).err # ""
          /\ Reloaded(fp).line = perr

\* a comment, a value, and a line 3 indented under no open scope: line 3 is
\* the one reported
C9_Witness ==
    /\ perr = 3
    /\ fp = << L_comment, L_a0, L_a3 >>

----------------------------------------------------------------------------
(* C10.  The indentation rule. *)

\* the data lines (not comment, not blank) among the lines read so far
DataLinesRead == { j \in 1..lineno : RE_ALL_LINES(fp[j]).kind # "comment" }

\* the last data line read opened a section
SectionJustOpened ==
    /\ DataLinesRead # {}
    /\ RE_ALL_LINES(fp[CHOOSE j \in DataLinesRead : \A h \in DataLinesRead : h <= j]).kind
          = "section"

(* C10.  While parse() has raised nothing, a data line of indent i is      *)
(* accepted by __update_indent if and only if (a) i is greater than the    *)
(* indent on top of the stack and the last data line read opened a         *)
(* section, whatever the width of i, or (b) i is the indent of an entry of *)
(* the stack; any other indent raises the indentation error.               *)
C10_IndentRule ==
    perr = 0 =>
        \A i \in 0..MaxIndent :
            LET u == __update_indent(conf_stack, new_conf, i)
                deeper == i > conf_stack[Len(conf_stack)].indent /\ SectionJustOpened
                open == \E e \in Range(conf_stack) : e.indent = i
            IN  /\ u.err = "" <=> (deeper \/ open)
                /\ u.err # "" => u.err = "ValueError"

\* "s:", " t:" and "   a = 1" are read: scopes of indent 0, 1 and 3 are open
C10_Witness ==
    /\ perr = 0
    /\ lineno = 3
    /\ Len(conf_stack) = 3
    /\ conf_stack[2].indent = 1
    /\ conf_stack[3].indent = 3

----------------------------------------------------------------------------
(* C30.  Parser placement. *)

\* line j of the stream, matched
Line(j) == RE_ALL_LINES(fp[j])

\* the section-open line that line j belongs to: the last one before j with an
\* indent smaller than that of j, 0 when there is none
Opener(j) ==
    LET before == { m \in 1..(j - 1) :
                      Line(m).kind = "section" /\ Line(m).indent < Line(j).indent }
    IN  IF before = {} THEN 0 ELSE CHOOSE m \in before : \A h \in before : h <= m

\* the key line j binds, as stored
KeyOf(j) == __key_transform__(Str_(Line(j).key)).key

\* the node that the section-open line j made, line 0 standing for the root;
\* 0 when the key of the line is not bound to a section in its place
RECURSIVE OpenedBy(_)
OpenedBy(j) ==
    IF j = 0 THEN 1
    ELSE LET home == OpenedBy(Opener(j))
         IN  IF home = 0 THEN 0
             ELSE IF KeyOf(j) \in nodes[home].sections /\ InData(nodes[home], KeyOf(j))
                     /\ DataAt(nodes[home], KeyOf(j)).t = "node"
             THEN DataAt(nodes[home], KeyOf(j)).id
             ELSE 0

\* the number of keys bound in the nodes i..Len(ns)
RECURSIVE BoundKeys(_, _)
BoundKeys(ns, i) == IF i > Len(ns) THEN 0 ELSE Len(ns[i].data) + BoundKeys(ns, i + 1)

(* C30.  Parser placement: while parse() has raised nothing, every         *)
(* key/value or section-open line read is bound in the section opened by   *)
(* the last section-open line before it whose indent is strictly smaller,  *)
(* or in the root when there is none, as a section or as a scalar          *)
(* according to its kind, and nothing else is bound; a section-open line   *)
(* whose next data line has an equal or smaller indent has made a section  *)
(* with no keys.                                                           *)
C30_ParserPlacement ==
    perr = 0 =>
        /\ BoundKeys(nodes, 1) = Cardinality(DataLinesRead)
        /\ \A j \in DataLinesRead :
              \A home \in { OpenedBy(Opener(j)) } :
                  /\ home # 0
                  /\ InData(nodes[home], KeyOf(j))
                  /\ Line(j).kind = "section" <=> KeyOf(j) \in nodes[home].sections
                  /\ Line(j).kind = "section" <=> DataAt(nodes[home], KeyOf(j)).t = "node"
                  /\ \A n \in DataLinesRead :
                        ( /\ Line(j).kind = "section"
                          /\ n > j
                          /\ \A h \in DataLinesRead : h > j => n <= h
                          /\ Line(n).indent <= Line(j).indent ) =>
                            nodes[OpenedBy(j)].data = << >>

\* "s:", " a = 1", "b = 2" are read: a is in s and b in the root
C30_Witness ==
    /\ perr = 0
    /\ lineno = 3
    /\ fp = << L_s0, L_a1, L_b0 >>
    /\ DataKeys(nodes[1]) = { << "s" >>, << "b" >> }
    /\ DataKeys(nodes[OpenedBy(1)]) = { << "a" >> }

----------------------------------------------------------------------------
(* C31.  Comment lines and the indentation state. *)

\* comment and blank lines of several indents
CommentLines == { L_comment, L_comment2, L_blank, << " ", " ", " " >> }

\* the text without its comment and blank lines
WithoutComments(lines) == SelectSeq(lines, LAMBDA l : RE_ALL_LINES(l).kind # "comment")

(* C31.  Comment lines leave the indentation state unchanged: while        *)
(* parse() has raised nothing, reading a comment or blank line of any      *)
(* indent raises nothing, leaves the stack and the pending section as they *)
(* were and binds no key; and the stream without its comment and blank     *)
(* lines is accepted exactly when the stream is, with the same keys,       *)
(* values and sections in the resulting tree.                              *)
C31_CommentsKeepIndentation ==
    /\ perr = 0 =>
          \A line \in CommentLines :
              \A r \in { parse_line(nodes, conf_stack, new_conf, line) } :
                  /\ r.err = ""
                  /\ r.conf_stack = conf_stack
                  /\ r.new_conf = new_conf
                  /\ TreeOf(r.nodes, 1) = TreeOf(nodes, 1)
    /\ \A whole \in { parse(EmptyRoot, 1, fp) } :
          \A bare \in { parse(EmptyRoot, 1, WithoutComments(fp)) } :
              /\ whole.err = "" <=> bare.err = ""
              /\ whole.err = "" => TreeOf(whole.nodes, 1) = TreeOf(bare.nodes, 1)

\* "s:", "  # c", " a = 1" are read: the comment stands between the line that
\* opens s and the first line of s
C31_Witness ==
    /\ perr = 0
    /\ lineno = 3
    /\ fp = << L_s0, L_comment2, L_a1 >>
    /\ DataKeys(nodes[OpenedBy(1)]) = { << "a" >> }
    /\ Len(nodes[OpenedBy(1)].order) = 2

(* C34. The stack of open scopes. *)

\* the node c is a section of the node p: p binds one of its section keys to c,
\* and c names p as its owner
IsChildSection(ns, c, p) ==
    /\ c \in DOMAIN ns
    /\ ns[c].meta.owner = p
    /\ \E k \in ns[p].sections : InData(ns[p], k) /\ DataAt(ns[p], k) = NodeRef(c)

(* C34.  Parser stack invariant: after every successfully processed line   *)
(* the stack is non-empty, its bottom entry is (0, the node loaded into),  *)
(* the indents increase strictly from bottom to top, and the node of each  *)
(* entry above the bottom is a child section of the node of the entry      *)
(* below it; the pending section, when set, is a child section of the node *)
(* on top of the stack and has no keys.                                    *)
C34_ParserStack ==
    perr = 0 =>
        /\ conf_stack # << >>
        /\ conf_stack[1] = [indent |-> 0, conf |-> 1]
        /\ \A j \in 2..Len(conf_stack) :
              /\ conf_stack[j].indent > conf_stack[j - 1].indent
              /\ IsChildSection(nodes, conf_stack[j].conf, conf_stack[j - 1].conf)
        /\ new_conf # 0 =>
              /\ IsChildSection(nodes, new_conf, conf_stack[Len(conf_stack)].conf)
              /\ DataKeys(nodes[new_conf]) = { }

\* 's:', ' t:' read: the scope of s is open above the root, t is pending in it
C34_Witness ==
    /\ perr = 0
    /\ lineno = 2
    /\ Len(conf_stack) = 2
    /\ conf_stack[2].indent = 1
    /\ nodes[conf_stack[2].conf].meta.key = << "s" >>
    /\ new_conf # 0
    /\ nodes[new_conf].meta.key = << "t" >>

----------------------------------------------------------------------------
(* The state machine of the globals fallback: a tree with sections named   *)
(* 'globals', written and read.                                            *)

\* the arena of this specification holds at most this many nodes
MaxGlobalsNodes == 4

\* and its order lists at most this many entries together
MaxGlobalsOrder == 5

S_globals == Str_(K_globals)

GlobalsKeys == { S_globals, S_a }

GlobalsValues == { Int_(1), Int_(2) }

\* the arena after a call, whether it returned or raised
BecomesInGlobals(ns) ==
    /\ Len(ns) <= MaxGlobalsNodes
    /\ OrderEntries(ns, 1) <= MaxGlobalsOrder
    /\ nodes' = ns
    /\ UNCHANGED << wholeFrozen, parserVars, files >>

\* node[key] = value
SetItemInGlobals(self, key, value) == BecomesInGlobals(set_value(nodes, self, key, value).nodes)

\* node[key], read
GetItemInGlobals(self, key) == BecomesInGlobals(__getitem__(nodes, self, key).nodes)

GlobalsNext ==
    \E self \in Attached(nodes), key \in GlobalsKeys :
        \/ \E value \in GlobalsValues : SetItemInGlobals(self, key, value)
        \/ GetItemInGlobals(self, key)

SpecGlobals == TreeInit /\ [][GlobalsNext]_vars

\* node N, its owner, the owner of its owner, ... up to the root
RECURSIVE OwnerChain(_, _)
OwnerChain(ns, N) == IF N = 0 THEN << >> ELSE << N >> \o OwnerChain(ns, ns[N].meta.owner)

\* node c has a section 'globals' that binds the identifier k
GlobalsBinds(ns, c, k) ==
    /\ K_globals \in ns[c].sections
    /\ \E e \in Range(ns[c].data) :
          e.k = K_globals /\ e.v.t = "node" /\ k \in DataKeys(ns[e.v.id])

\* the value of k in the section 'globals' of node c
GlobalsValue(ns, c, k) == DataAt(ns[DataAt(ns[c], K_globals).id], k)

\* the keys read: the keys written, another spelling of one, a key that names
\* a metadata field, and a key that starts with a digit
ReadKeys == GlobalsKeys \cup { S_A, Str_(K_root), Str_(<< "1" >>) }

(* C11.  Globals fallback: on every node N, N[k] for a key bound in N      *)
(* returns N's own value, whatever the globals sections hold; for a key    *)
(* not bound in N it returns the value of k in the 'globals' section of    *)
(* the first node on the owner chain N, owner(N), ..., root whose          *)
(* 'globals' section binds k.                                              *)
C11_GlobalsFallback ==
    \A N \in Attached(nodes), key \in GlobalsKeys \cup { S_A } :
        LET k == __key_transform__(key).key
            chain == OwnerChain(nodes, N)
            hits == { j \in DOMAIN chain : GlobalsBinds(nodes, chain[j], k) }
            nearest == chain[CHOOSE j \in hits : \A h \in hits : j <= h]
        IN  /\ InData(nodes[N], k) =>
                  __getitem__(nodes, N, key) = Return(nodes, DataAt(nodes[N], k))
            /\ (~InData(nodes[N], k) /\ hits # {}) =>
                  __getitem__(nodes, N, key) = Return(nodes, GlobalsValue(nodes, nearest, k))

\* the root's globals binds 'a' to one value, the globals of the root's section
\* 'a' binds it to another, and the section does not bind 'a': the section reads
\* the nearer value, and the root reads its own 'a', the section
C11_Witness ==
    \E s \in Attached(nodes) :
        /\ nodes[s].meta.owner = 1
        /\ nodes[s].meta.key = << "a" >>
        /\ ~InData(nodes[s], << "a" >>)
        /\ GlobalsBinds(nodes, 1, << "a" >>)
        /\ GlobalsBinds(nodes, s, << "a" >>)
        /\ GlobalsValue(nodes, 1, << "a" >>) # GlobalsValue(nodes, s, << "a" >>)
        /\ __getitem__(nodes, s, S_a).ret = GlobalsValue(nodes, s, << "a" >>)
        /\ __getitem__(nodes, 1, S_a).ret = NodeRef(s)

----------------------------------------------------------------------------
(* C12.  The effect of an indexed read. *)

\* the arena `after` is the arena `before` with one new, empty section under
\* the identifier k of node N, and nothing else changed
OneSectionAdded(before, after, N, k) ==
    LET new == Len(before) + 1
    IN  /\ Len(after) = new
        /\ after[new].data = << >>
        /\ after[new].sections = {}
        /\ after[new].order = << >>
        /\ after[new].meta.owner = N
        /\ after[new].meta.key = k
        /\ after[new].meta.modifier = NoName
        /\ after[N].data = Append(before[N].data, [k |-> k, v |-> NodeRef(new)])
        /\ after[N].sections = before[N].sections \cup { k }
        /\ after[N].order = Append(before[N].order, [type |-> "key", info |-> k])
        /\ after[N].meta = before[N].meta
        /\ after[N].immutable = before[N].immutable
        /\ \A i \in DOMAIN before : i # N => after[i] = before[i]

(* C12.  On every node N, N[k] returns without changing any node when k    *)
(* names a metadata field, is bound in N, or is bound in a 'globals'       *)
(* section on N's owner chain.  When it resolves in none of these ways it  *)
(* adds one empty section under the normalized k to N - owner N, recorded  *)
(* in N's data, sections and order - leaves every other node as it was,    *)
(* and returns the new section.  A key that cannot be normalized raises    *)
(* and changes nothing.                                                    *)
C12_IndexedAccess ==
    \A N \in Attached(nodes), key \in ReadKeys :
        LET kt == __key_transform__(key)
            r == __getitem__(nodes, N, key)
            resolved == \/ kt.key \in MetaKeys
                        \/ InData(nodes[N], kt.key)
                        \/ \E c \in Range(OwnerChain(nodes, N)) : GlobalsBinds(nodes, c, kt.key)
        IN  IF kt.err # "" THEN r = Raise(nodes, kt.err)
            ELSE IF resolved THEN r.err = "" /\ r.nodes = nodes
            ELSE /\ r.err = ""
                 /\ r.ret = NodeRef(Len(nodes) + 1)
                 /\ OneSectionAdded(nodes, r.nodes, N, kt.key)

\* the root has an empty section 'a' and its globals binds 'a': on the section
\* a read of 'a' resolves through the root's globals, and a read of 'globals'
\* resolves nowhere and makes a section
C12_Witness ==
    \E N \in Attached(nodes) :
        /\ nodes[N].meta.owner = 1
        /\ nodes[N].meta.key = << "a" >>
        /\ nodes[N].data = << >>
        /\ GlobalsBinds(nodes, 1, << "a" >>)
        /\ __getitem__(nodes, N, S_a) = Return(nodes, GlobalsValue(nodes, 1, << "a" >>))
        /\ Len(__getitem__(nodes, N, S_globals).nodes) = Len(nodes) + 1

----------------------------------------------------------------------------
(* The state machine of the operations that write a tree: set, add_section, *)
(* delete, add_comment, the autovivifying read, loads, clear and           *)
(* set_modifier.                                                           *)

\* 'a!': a key that is no identifier
S_bang == Str_(<< "a", "!" >>)

\* '1a': a key that starts with a digit
S_1a == Str_(<< "1", "a" >>)

OpsKeys == { S_a, S_bang }

OpsValues == { Int_(7) }

\* set_modifier does with every name what it does with None
OpsModifiers == { NoName }

\* "# c", "a = 1"
OpsTexts == { << L_comment, L_a0 >> }

\* node.clear()
Clear(self) == Becomes(clear(nodes, self).nodes)

\* node.set_modifier(modifier_name)
SetModifier(self, modifier_name) == Becomes(set_modifier(nodes, self, modifier_name).nodes)

OpsNext ==
    \E self \in Attached(nodes) :
        \/ \E key \in OpsKeys, value \in OpsValues : SetItem(self, key, value)
        \/ \E key \in OpsKeys : AddSection(self, key)
        \/ \E key \in OpsKeys : DelItem(self, key)
        \/ \E comment \in TreeComments : AddComment(self, comment)
        \/ \E key \in OpsKeys : GetItem(self, key)
        \/ \E lines \in OpsTexts : Loads(self, lines)
        \/ Clear(self)
        \/ \E modifier_name \in OpsModifiers : SetModifier(self, modifier_name)

SpecOps == TreeInit /\ [][OpsNext]_vars

(* C13.  The sections invariant: in every reachable state, every member of *)
(* a node's sections set is a key of the node's data, bound to a child     *)
(* node whose owner is that node.                                          *)
C13_SectionsInvariant ==
    \A i \in Attached(nodes) : \A k \in nodes[i].sections :
        /\ InData(nodes[i], k)
        /\ DataAt(nodes[i], k).t = "node"
        /\ nodes[DataAt(nodes[i], k).id].meta.owner = i

----------------------------------------------------------------------------
(* C14.  The tree shape invariant: in every reachable state, a child node  *)
(* C stored under key k in node P has the path of P followed by k, the key *)
(* k, the owner P and the root of P; a node that is its own root has an    *)
(* empty path and no owner, and the root of every node has no owner.       *)
C14_TreeShape ==
    \A P \in DOMAIN nodes :
        /\ \A e \in Range(nodes[P].data) :
              e.v.t = "node" =>
                  /\ nodes[e.v.id].meta.sub_path = Append(nodes[P].meta.sub_path, e.k)
                  /\ nodes[e.v.id].meta.key = e.k
                  /\ nodes[e.v.id].meta.owner = P
                  /\ nodes[e.v.id].meta.root = nodes[P].meta.root
        /\ nodes[P].meta.root = P =>
              nodes[P].meta.owner = 0 /\ nodes[P].meta.sub_path = << >>
        /\ nodes[nodes[P].meta.root].meta.owner = 0

\* a section of a section of the root is in the tree
C14_Witness ==
    \E C \in Attached(nodes) :
        /\ nodes[C].meta.owner \notin { 0, 1 }
        /\ nodes[nodes[C].meta.owner].meta.owner = 1
        /\ Len(nodes[C].meta.sub_path) = 2
        /\ nodes[C].meta.root = 1

----------------------------------------------------------------------------
(* C15.  The order log. *)

\* the text of a data line between its indent and the ":" or the " =" that
\* follows its key
LineHead(line) ==
    LET k0 == Span(line, 1, IsBlank)
        stop == CHOOSE p \in k0..(Len(line) + 1) :
                    /\ p = Len(line) + 1 \/ line[p] \in { ":", " " }
                    /\ \A h \in k0..(p - 1) : line[h] \notin { ":", " " }
    IN  SubSeq(line, k0, stop - 1)

\* what each line of a dump is: a comment, or the line of a key at an indent
Emitted(lines) ==
    [ j \in DOMAIN lines |->
        IF RE_COMMENT(lines[j]) THEN [comment |-> TRUE, indent |-> 0, head |-> << >>]
        ELSE [comment |-> FALSE, indent |-> Span(lines[j], 1, IsBlank) - 1,
              head |-> LineHead(lines[j])] ]

\* what the order list of node i asks for, from its entry j on: one line for
\* each line of a comment, one for each entry of a key that is bound, followed
\* for a section by what the section's own list asks for, and nothing for an
\* entry whose key is not bound
RECURSIVE Logged(_, _, _, _)
Logged(ns, i, depth, j) ==
    IF j > Len(ns[i].order) THEN << >>
    ELSE LET e == ns[i].order[j]
             line == [comment |-> FALSE, indent |-> depth * indent_spaces, head |-> e.info]
             here == IF e.type = "comment"
                     THEN [ n \in DOMAIN SplitLines(e.info) |->
                              [comment |-> TRUE, indent |-> 0, head |-> << >>] ]
                     ELSE IF ~InData(ns[i], e.info) THEN << >>
                     ELSE IF DataAt(ns[i], e.info).t = "node"
                     THEN << line >> \o Logged(ns, DataAt(ns[i], e.info).id, depth + 1, 1)
                     ELSE << line >>
         IN  here \o Logged(ns, i, depth, j + 1)

\* the dump of every node, when it succeeds, is what the node's order list asks for
DumpFollowsOrder(ns) ==
    \A i \in DOMAIN ns :
        \A d \in { __dump__(ns, i, 0) } :
            d.err = "" => Emitted(d.lines) = Logged(ns, i, 0, 1)

\* the dump of node i, when it succeeds, has no line of its own for the key k
NoLineFor(ns, i, k) ==
    \A d \in { __dump__(ns, i, 0) } :
        d.err = "" =>
            \A t \in Range(Emitted(d.lines)) : ~(~t.comment /\ t.indent = 0 /\ t.head = k)

(* C15.  In every step, the order list of every node keeps its entries in  *)
(* their places and at most grows at its end; after the step, the dump of  *)
(* every node emits its comments and its bound keys in the order of the    *)
(* list; and when the step is a delete of a bound key k on a node, the     *)
(* node's list is as it was, with its entry for k, and the dump emits no   *)
(* line for k.                                                             *)
C15_OrderLog ==
    [][ /\ \A i \in DOMAIN nodes :
              /\ i \in DOMAIN nodes'
              /\ Len(nodes'[i].order) >= Len(nodes[i].order)
              /\ SubSeq(nodes'[i].order, 1, Len(nodes[i].order)) = nodes[i].order
        /\ DumpFollowsOrder(nodes')
        /\ \A i \in Attached(nodes), key \in OpsKeys :
              (/\ InData(nodes[i], __key_transform__(key).key)
               /\ nodes' = __delitem__(nodes, i, key).nodes) =>
                  /\ nodes'[i].order = nodes[i].order
                  /\ [type |-> "key", info |-> __key_transform__(key).key]
                         \in Range(nodes'[i].order)
                  /\ NoLineFor(nodes', i, __key_transform__(key).key) ]_vars

\* the root's list has a stale entry for 'a', a comment and an entry for a
\* bound key, and its dump has two lines
C15_Witness ==
    /\ Len(nodes[1].order) = 3
    /\ nodes[1].order[1] = [type |-> "key", info |-> << "a" >>]
    /\ ~InData(nodes[1], << "a" >>)
    /\ \E j \in 2..3 : nodes[1].order[j].type = "comment"
    /\ \E j \in 2..3 : nodes[1].order[j].type = "key" /\ InData(nodes[1], nodes[1].order[j].info)
    /\ Len(dumps(nodes, 1).lines) = 2

----------------------------------------------------------------------------
(* C16.  Bound keys are identifiers. *)

\* k is a lower-case identifier of the format grammar
IsIdentifier(k) ==
    /\ k # << >>
    /\ IsNameStart(k[1])
    /\ \A j \in DOMAIN k : IsNameChar(k[j]) /\ k[j] \notin Range(UpperSeq)

\* the call raised and changed nothing
Rejected(ns, r) == r.err # "" /\ r.nodes = ns

(* C16.  In every reachable state every key bound in a node's data is a    *)
(* lower-case identifier (a letter or underscore, then letters, digits or  *)
(* underscores), and a set or add_section whose key does not normalize to  *)
(* such an identifier is rejected and binds nothing.                       *)
C16_BoundKeysAreIdentifiers ==
    /\ \A i \in DOMAIN nodes : \A k \in DataKeys(nodes[i]) : IsIdentifier(k)
    /\ \A N \in Attached(nodes), key \in OpsKeys \cup { S_1a } :
          ~IsIdentifier(__key_transform__(key).key) =>
              /\ \A value \in OpsValues : Rejected(nodes, set_value(nodes, N, key, value))
              /\ Rejected(nodes, add_section(nodes, N, key, NoName))

----------------------------------------------------------------------------
(* The state machine of the sequence view: trees with lists, written, and  *)
(* iterated.                                                               *)

\* [7, 8]
ListOfTwo == [t |-> "list", items |-> << Int_(7), Int_(8) >>]

\* []
EmptyList == [t |-> "list", items |-> << >>]

\* [[7], '5']
NestedList == [t |-> "list", items |-> << [t |-> "list", items |-> << Int_(7) >>],
                                          Str_(<< "5" >>) >>]

SeqKeys == { S_a, Int_(0) }

SeqValues == { Int_(7), ListOfTwo }

\* [{'b': 1}]
ListOfDict == [t |-> "list", items |-> << SmallDict >>]

\* the lists and tuples handed to set
SeqLists == { ListOfTwo, EmptyList, NestedList, ListOfDict }

\* list(node)
Iterate(self) == Becomes(__iter__(nodes, self).nodes)

SeqNext ==
    \E self \in Attached(nodes) :
        \/ \E key \in SeqKeys, value \in SeqValues : SetItem(self, key, value)
        \/ \E key \in SeqKeys : DelItem(self, key)
        \/ \E key \in SeqKeys : GetItem(self, key)
        \/ Iterate(self)

SpecSeq == TreeInit /\ [][SeqNext]_vars

\* k is list<i>: what __key_transform__ makes of the index i
IsListKey(k) ==
    /\ StartsWith(k, K_list)
    /\ IsDigits(From(k, Len(K_list) + 1))
    /\ NatToStr(DigitsToNat(From(k, Len(K_list) + 1))) = From(k, Len(K_list) + 1)

\* list<i>
ListKey(i) == K_list \o NatToStr(i)

\* the greatest i with list<i> bound in the node, -1 when there is none
MaxIndex(node) ==
    IF node.data = << >> THEN 0 - 1
    ELSE CHOOSE m \in 0..(Len(node.data) + MaxOrder) :
             /\ InData(node, ListKey(m))
             /\ \A n \in (m + 1)..(Len(node.data) + MaxOrder) : ~InData(node, ListKey(n))

\* iterating node N, whose keys are all list<i>, yields max_index + 1 elements:
\* the value of list<i>, or None where list<i> is not bound
YieldsWithGaps(ns, N) ==
    \A r \in { __iter__(ns, N) } :
        /\ r.err = ""
        /\ r.nodes = ns
        /\ Len(r.ret) = MaxIndex(ns[N]) + 1
        /\ \A i \in 0..MaxIndex(ns[N]) :
              r.ret[i + 1] = IF InData(ns[N], ListKey(i)) THEN DataAt(ns[N], ListKey(i))
                             ELSE NoneV

\* the value v read from the tree is the element x itself
IsElement(ns, v, x) == v = x

\* the value v read from the tree is the element x when x is a scalar; a
\* section whose own sequence view yields the elements of x when x is a list or
\* a tuple of scalars; a section when x is a mapping
IsElementOrItsSection(ns, v, x) ==
    IF x.t = "list"
    THEN /\ v.t = "node"
         /\ \A it \in { __iter__(ns, v.id) } :
               it.err = "" /\ it.nodes = ns /\ it.ret = x.items
    ELSE IF x.t = "dict" THEN v.t = "node"
    ELSE v = x

\* after a set(key, L) on node N that returns, node[key] is a section with
\* len(L) keys whose iteration yields len(L) elements, element i and
\* node[key][i] being L[i] in the sense of Same
SetThenIterate(N, key, L, Same(_, _, _)) ==
    \A r \in { set_value(nodes, N, key, L) } :
        r.err = "" =>
            \A sec \in { __getitem__(r.nodes, N, key) } :
                /\ sec.err = ""
                /\ sec.ret.t = "node"
                /\ __len__(r.nodes, sec.ret.id) = Len(L.items)
                /\ \A it \in { __iter__(r.nodes, sec.ret.id) } :
                      /\ it.err = ""
                      /\ Len(it.ret) = Len(L.items)
                      /\ \A i \in DOMAIN L.items :
                            /\ Same(r.nodes, it.ret[i], L.items[i])
                            /\ Same(r.nodes,
                                    __getitem__(r.nodes, sec.ret.id, Int_(i - 1)).ret,
                                    L.items[i])

(* C17, as stated.  Iterating a node whose keys are all of the form        *)
(* list<i> yields max_index + 1 elements, element i being the value of     *)
(* list<i>, or None for a gap; and after set(key, L) for any list or tuple *)
(* L, iterating node[key] yields the elements of L in order, node[key][i]  *)
(* equals L[i] and len(node[key]) is the length of L.                      *)
C17_SequenceViewOfAnyList ==
    \A N \in Attached(nodes) :
        /\ (\A k \in DataKeys(nodes[N]) : IsListKey(k)) => YieldsWithGaps(nodes, N)
        /\ \A key \in SeqKeys, L \in SeqLists : SetThenIterate(N, key, L, IsElement)

(* C17, amended.  The same, with the elements of L that are themselves     *)
(* lists, tuples or mappings set apart: set stores such an element as a    *)
(* section of its own, so element i of the iteration and node[key][i] are  *)
(* L[i] when L[i] is a scalar, and the section made of L[i] otherwise: for *)
(* a list or a tuple, the section whose sequence view yields the elements  *)
(* of L[i].                                                                *)
C17_SequenceView ==
    \A N \in Attached(nodes) :
        /\ (\A k \in DataKeys(nodes[N]) : IsListKey(k)) => YieldsWithGaps(nodes, N)
        /\ \A key \in SeqKeys, L \in SeqLists :
              SetThenIterate(N, key, L, IsElementOrItsSection)

\* 'a' was set to [7, 8] on the root and its element 0 deleted: the iteration
\* of the section yields None and 8, and the section has one key
C17_Witness ==
    \E N \in Attached(nodes) :
        /\ nodes[N].meta.owner = 1
        /\ nodes[N].meta.key = << "a" >>
        /\ DataKeys(nodes[N]) = { ListKey(1) }
        /\ __iter__(nodes, N).err = ""
        /\ __iter__(nodes, N).ret = << NoneV, Int_(8) >>
        /\ __len__(nodes, N) = 1

----------------------------------------------------------------------------
(* C18.  The iteration fallback: iterating a node with a key that is not   *)
(* of the form list<i> does not fail, and yields the keys of the node's    *)
(* data in insertion order.                                                *)
C18_IterationFallback ==
    \A N \in Attached(nodes) :
        (\E k \in DataKeys(nodes[N]) : ~IsListKey(k)) =>
            \A it \in { __iter__(nodes, N) } :
                /\ it.err = ""
                /\ it.nodes = nodes
                /\ it.ret = [ j \in DOMAIN nodes[N].data |-> Str_(nodes[N].data[j].k) ]

----------------------------------------------------------------------------
(* The state machine of copy: trees that are written and copied, the       *)
(* copies being further roots of the arena.                                *)

CopyKeys == { S_a, S_b }

CopyValues == { Int_(7), Str_(<< "5" >>) }

\* node.copy()
Copy(self) == Becomes(copy(nodes, self, 0).nodes)

CopyNext ==
    \E self \in Attached(nodes) :
        \/ \E key \in CopyKeys, value \in CopyValues : SetItem(self, key, value)
        \/ \E key \in CopyKeys : AddSection(self, key)
        \/ \E key \in CopyKeys : DelItem(self, key)
        \/ \E comment \in TreeComments : AddComment(self, comment)
        \/ Copy(self)

SpecCopy == TreeInit /\ [][CopyNext]_vars

\* what set, add_section, delete and add_comment on node m make of the arena
Written(ns, m) ==
    { set_value(ns, m, key, value).nodes : key \in CopyKeys, value \in CopyValues }
    \cup { add_section(ns, m, key, NoName).nodes : key \in CopyKeys }
    \cup { __delitem__(ns, m, key).nodes : key \in CopyKeys }
    \cup { add_comment(ns, m, comment).nodes : comment \in TreeComments }

(* C19.  Copy independence: on every node N of a reachable tree, copy()    *)
(* returns; the nodes of the original are as they were; the copy has the   *)
(* keys, the scalars and the sections of N's subtree; it is made of new    *)
(* nodes only; and no set, add_section, delete or add_comment on a node of *)
(* the copy changes a node of the original, nor one on a node of the       *)
(* original a node of the copy.                                            *)
C19_CopyIsIndependentClone ==
    \A N \in Attached(nodes) :
        \A c \in { copy(nodes, N, 0) } :
            /\ c.err = ""
            /\ SubSeq(c.nodes, 1, Len(nodes)) = nodes
            /\ TreeOf(c.nodes, c.ret) = TreeOf(nodes, N)
            /\ Subtree(c.nodes, c.ret) = (Len(nodes) + 1)..Len(c.nodes)
            /\ \A m \in Subtree(c.nodes, c.ret) : \A w \in Written(c.nodes, m) :
                  SubSeq(w, 1, Len(nodes)) = nodes
            /\ \A m \in DOMAIN nodes : \A w \in Written(c.nodes, m) :
                  \A i \in Subtree(c.nodes, c.ret) : w[i] = c.nodes[i]

----------------------------------------------------------------------------
(* The state machine of a freeze among all the operations that write: set, *)
(* add_section, delete, add_comment, update, loads, clear, set_modifier,   *)
(* the autovivifying read, and set_immutable.                              *)

OneWayKeys == { S_a }

OneWayValues == { Int_(1), SmallDict }

OneWayNext ==
    \E self \in Attached(nodes) :
        \/ \E key \in OneWayKeys, value \in OneWayValues : SetItem(self, key, value)
        \/ \E key \in OneWayKeys : AddSection(self, key)
        \/ \E key \in OneWayKeys : DelItem(self, key)
        \/ \E key \in OneWayKeys : GetItem(self, key)
        \/ \E comment \in TreeComments : AddComment(self, comment)
        \/ Update(self, SmallDict.items)
        \/ \E lines \in FreezeTexts : Loads(self, lines)
        \/ Clear(self)
        \/ \E modifier_name \in OpsModifiers : SetModifier(self, modifier_name)
        \/ \E recursive \in BOOLEAN, from_root \in BOOLEAN :
              SetImmutable(self, recursive, from_root)

SpecOneWay == TreeInit /\ [][OneWayNext]_vars

\* set, add_section, add_comment, load and loads, update, clear and
\* set_modifier on node m raise the immutability error and change nothing
AllRefused(ns, m) ==
    /\ \A key \in OneWayKeys, value \in OneWayValues :
          RefusedAsImmutable(ns, set_value(ns, m, key, value))
    /\ \A key \in OneWayKeys : RefusedAsImmutable(ns, add_section(ns, m, key, NoName))
    /\ \A comment \in TreeComments : RefusedAsImmutable(ns, add_comment(ns, m, comment))
    /\ \A lines \in FreezeTexts : RefusedAsImmutable(ns, load(ns, m, lines))
    /\ RefusedAsImmutable(ns, update(ns, m, SmallDict.items))
    /\ RefusedAsImmutable(ns, clear(ns, m))
    /\ \A modifier_name \in { NoName, TypeModifierName } :
          RefusedAsImmutable(ns, set_modifier(ns, m, modifier_name))

(* C20.  Freeze is one-way: in every step, whatever the operation and the  *)
(* node it is called on, a node that is immutable stays immutable; and on  *)
(* every node that is immutable after the step, set, add_section,          *)
(* add_comment, load, loads, update, clear and set_modifier raise the      *)
(* immutability error and change nothing.                                  *)
C20_FreezeIsOneWay ==
    [][ /\ \A i \in DOMAIN nodes :
              nodes[i].immutable => (i \in DOMAIN nodes' /\ nodes'[i].immutable)
        /\ \A i \in DOMAIN nodes' :
              nodes'[i].immutable => AllRefused(nodes', i) ]_vars

\* a section with data was frozen alone, and its owner, the root, was cleared
\* afterwards: the section is still immutable
C20_Witness ==
    \E i \in DOMAIN nodes :
        /\ nodes[i].immutable
        /\ nodes[i].meta.owner = 1
        /\ nodes[i].data # << >>
        /\ ~nodes[1].immutable
        /\ nodes[1].data = << >>
        /\ nodes[1].sections # {}

----------------------------------------------------------------------------
(* The state machine of reads under a freeze: a tree with globals sections *)
(* that is written, read and frozen.                                       *)

FrozenReadKeys == { S_globals, S_a }

FrozenReadValues == { Int_(1) }

FrozenReadNext ==
    \E self \in Attached(nodes) :
        \/ \E key \in FrozenReadKeys, value \in FrozenReadValues : SetItem(self, key, value)
        \/ \E key \in FrozenReadKeys : AddSection(self, key)
        \/ \E key \in FrozenReadKeys : GetItem(self, key)
        \/ \E recursive \in BOOLEAN, from_root \in BOOLEAN :
              SetImmutable(self, recursive, from_root)

SpecFrozenRead == TreeInit /\ [][FrozenReadNext]_vars

\* the identifier k is bound in node N or in the globals section of a node on
\* N's owner chain
Resolves(ns, N, k) ==
    \/ k \in DataKeys(ns[N])
    \/ \E j \in DOMAIN OwnerChain(ns, N) : GlobalsBinds(ns, OwnerChain(ns, N)[j], k)

\* the value the identifier k resolves to from node N: N's own, or that of the
\* nearest globals section
Resolved(ns, N, k) ==
    IF k \in DataKeys(ns[N]) THEN DataAt(ns[N], k)
    ELSE LET chain == OwnerChain(ns, N)
             j == CHOOSE j \in DOMAIN chain :
                    /\ GlobalsBinds(ns, chain[j], k)
                    /\ \A i \in 1..(j - 1) : ~GlobalsBinds(ns, chain[i], k)
         IN  GlobalsValue(ns, chain[j], k)

(* C23.  Reads on a frozen node: on an immutable node, node[k] for a key   *)
(* bound in the node or in a globals section on its owner chain returns    *)
(* that value and changes nothing; for a key that resolves nowhere it      *)
(* raises ImmutableConfiguration and creates no section; on a node that is *)
(* not immutable the read of a key that resolves nowhere returns (a new    *)
(* section of the node).                                                   *)
C23_FrozenReads ==
    \A N \in Attached(nodes), key \in FrozenReadKeys \cup { S_A } :
        \A k \in { __key_transform__(key).key } :
            \A r \in { __getitem__(nodes, N, key) } :
                /\ nodes[N].immutable /\ Resolves(nodes, N, k) =>
                      r = Return(nodes, Resolved(nodes, N, k))
                /\ nodes[N].immutable /\ ~Resolves(nodes, N, k) =>
                      RefusedAsImmutable(nodes, r)
                /\ ~nodes[N].immutable /\ ~Resolves(nodes, N, k) =>
                      /\ r.err = ""
                      /\ r.ret.t = "node"
                      /\ Len(r.nodes) = Len(nodes) + 1
                      /\ r.nodes[r.ret.id].meta.owner = N

\* a frozen section that reads one key through the globals section of its
\* free owner and finds nothing for another
C23_Witness ==
    \E N \in Attached(nodes) :
        /\ nodes[N].immutable
        /\ nodes[N].meta.owner # 0
        /\ ~nodes[nodes[N].meta.owner].immutable
        /\ << "a" >> \notin DataKeys(nodes[N])
        /\ GlobalsBinds(nodes, nodes[N].meta.owner, << "a" >>)
        /\ __getitem__(nodes, N, S_a) = Return(nodes, Int_(1))
        /\ ~Resolves(nodes, N, K_globals)
        /\ RefusedAsImmutable(nodes, __getitem__(nodes, N, S_globals))

----------------------------------------------------------------------------
(* The state machine of replacing a key: a tree whose keys are set,        *)
(* deleted in both spellings, and set again.                               *)

ReplaceKeys == { S_a, S_b }

ReplaceValues == { Int_(1), Int_(2) }

\* del node.key
DelAttr(self, key) == Becomes(__delattr__(nodes, self, key.s).nodes)

ReplaceNext ==
    \E self \in Attached(nodes), key \in ReplaceKeys :
        \/ \E value \in ReplaceValues : SetItem(self, key, value)
        \/ AddSection(self, key)
        \/ DelItem(self, key)
        \/ DelAttr(self, key)
        \/ GetItem(self, key)

SpecReplace == TreeInit /\ [][ReplaceNext]_vars

\* after the delete d of the bound key, the key is in neither data nor sections,
\* set(key, v) and add_section(key) return, and get(key) is then the new value
ReplacedAfter(d, N, key) ==
    /\ d.err = ""
    /\ key.s \notin DataKeys(d.nodes[N])
    /\ key.s \notin d.nodes[N].sections
    /\ \A value \in ReplaceValues :
          \A r \in { set_value(d.nodes, N, key, value) } :
              /\ r.err = ""
              /\ get_value(r.nodes, N, key, NoneV) = Return(r.nodes, value)
    /\ \A r \in { add_section(d.nodes, N, key, NoName) } :
          /\ r.err = ""
          /\ get_value(r.nodes, N, key, NoneV) = Return(r.nodes, NodeRef(r.ret))

(* C24.  Delete then set: after deleting a bound key k of a node, with     *)
(* del node[k] or with the docstring's del node.k, k is absent from data   *)
(* and sections, a following set(k, v) or add_section(k) on the node       *)
(* succeeds, and get(k) then returns the new value.                        *)
C24_DeleteThenSet ==
    \A N \in Attached(nodes), key \in ReplaceKeys :
        key.s \in DataKeys(nodes[N]) =>
            /\ ReplacedAfter(__delitem__(nodes, N, key), N, key)
            /\ ReplacedAfter(__delattr__(nodes, N, key.s), N, key)

\* the lines of the dump d that are the key/value line or the section header
\* of the key k of the node dumped
LinesOf(d, k) ==
    { j \in DOMAIN d.lines :
        \A t \in { Emitted(d.lines)[j] } : ~t.comment /\ t.indent = 0 /\ t.head = k }

(* C33.  Dump emits each bound key once: after any sequence of set,        *)
(* add_section and delete, the dump of a node succeeds and has exactly one *)
(* key/value line or section header for each key bound in the node.        *)
C33_DumpEmitsBoundKeysOnce ==
    \A N \in Attached(nodes) :
        \A d \in { __dump__(nodes, N, 0) } :
            /\ d.err = ""
            /\ \A k \in DataKeys(nodes[N]) : Cardinality(LinesOf(d, k)) = 1

----------------------------------------------------------------------------
(* The state machine of serialization: a tree of scalars, sections and     *)
(* comments, some of them read from a text in the writer's layout.         *)

\* the strings '07' and "'q'" (the quotes are characters of the string)
S_07 == Str_(<< "0", "7" >>)
S_quoted == Str_(<< "'", "q", "'" >>)

FixedPointKeys == { S_a, S_s }

FixedPointValues == { Int_(1), S_07, S_quoted }

FixedPointComments == { << "c" >> }

\* "s:" / "    a = 1" / "# c"
FixedPointTexts ==
    { << << "s", ":" >>,
         << " ", " ", " ", " ", "a", " ", "=", " ", "1" >>,
         << "#", " ", "c" >> >> }

FixedPointNext ==
    \E self \in Attached(nodes) :
        \/ \E key \in FixedPointKeys, value \in FixedPointValues : SetItem(self, key, value)
        \/ \E key \in FixedPointKeys : AddSection(self, key)
        \/ \E comment \in FixedPointComments : AddComment(self, comment)
        \/ \E lines \in FixedPointTexts : Loads(self, lines)

SpecFixedPoint == TreeInit /\ [][FixedPointNext]_vars

(* C25.  Serialization is a fixed point of parse-then-serialize: for every *)
(* reachable tree whose dump d loads into a fresh root, the dump of the    *)
(* loaded tree is d again.                                                 *)
C25_DumpIsFixedPoint ==
    \A d \in { dumps(nodes, 1) } :
        d.err = "" =>
            \A r \in { Reloaded(d.lines) } :
                r.err = "" =>
                    \A d2 \in { dumps(r.nodes, 1) } : d2.err = "" /\ d2.lines = d.lines

----------------------------------------------------------------------------
(* The state machine of the reserved names: a tree, with sections of the   *)
(* type modifier and globals sections, on which the names of the metadata  *)
(* and of the implicit fields are used as keys.                            *)

S_root == Str_(K_root)
S_object == Str_(K_object)

ReservedKeys == { S_a, S_globals, S_root, S_object }

ReservedValues == { Int_(1), SomeClass }

ReservedModifiers == { NoName, TypeModifierName }

\* the keys read: the keys of data alone, the value of an implicit field being
\* an object built outside the tree
ReservedReads == { S_a, S_globals, S_root }

ReservedNext ==
    \E self \in Attached(nodes) :
        \/ \E key \in ReservedKeys, value \in ReservedValues : SetItem(self, key, value)
        \/ \E key \in ReservedReads : GetItem(self, key)
        \/ SetModifier(self, TypeModifierName)

SpecReserved == TreeInit /\ [][ReservedNext]_vars

\* spellings of the six metadata names
MetaSpellings ==
    { Str_(k) : k \in MetaKeys } \cup
    { Str_(<< "R", "O", "O", "T" >>), Str_(<< "K", "e", "y" >>),
      Str_(<< "s", "u", "b", "-", "p", "a", "t", "h" >>) }

\* the call raised and changed nothing
Refused(ns, r) == r.err # "" /\ r.nodes = ns

(* C26.  Metadata names are reserved: on every node, for every key that    *)
(* normalizes to one of owner, back, root, sub_path, modifier, key, get    *)
(* and indexed access return the metadata value and change nothing, no     *)
(* node and no globals section binds the name, and set and add_section     *)
(* with that key raise and leave the tree unchanged.                       *)
C26_MetadataNamesReserved ==
    \A N \in Attached(nodes), key \in MetaSpellings :
        \A k \in { __key_transform__(key).key } :
            /\ k \in MetaKeys
            /\ k \notin DataKeys(nodes[N])
            /\ \A default_value \in { NoneV, test_item, Int_(1) } :
                  get_value(nodes, N, key, default_value) =
                      Return(nodes, MetaValue(nodes[N], k))
            /\ __getitem__(nodes, N, key) = Return(nodes, MetaValue(nodes[N], k))
            /\ \A value \in ReservedValues \cup { SmallDict, ListOfOne } :
                  Refused(nodes, set_value(nodes, N, key, value))
            /\ \A section_type \in ReservedModifiers :
                  Refused(nodes, add_section(nodes, N, key, section_type))

\* a section under a root whose globals section binds 'a': the section reads
\* 'a' from the globals and 'ROOT' from its own metadata
C26_Witness ==
    \E N \in Attached(nodes) :
        /\ nodes[N].meta.owner = 1
        /\ nodes[N].meta.key # K_globals
        /\ GlobalsBinds(nodes, 1, << "a" >>)
        /\ << "a" >> \notin DataKeys(nodes[N])
        /\ __getitem__(nodes, N, S_a).ret = GlobalsValue(nodes, 1, << "a" >>)
        /\ __getitem__(nodes, N, Str_(<< "R", "O", "O", "T" >>)) = Return(nodes, NodeRef(1))
        /\ set_value(nodes, N, S_root, Int_(1)).err = "KeyError"

\* spellings of the type modifier's implicit field names
ImplicitSpellings ==
    { Str_(k) : k \in implicit_fields } \cup { Str_(<< "O", "b", "j", "e", "c", "t" >>) }

(* C29.  Implicit fields cannot be assigned: on a node whose modifier is   *)
(* the type modifier, set(key, value) with key one of object, instance,    *)
(* call raises and leaves data, sections and order of every node           *)
(* unchanged.                                                              *)
C29_ImplicitFieldsRefused ==
    \A N \in Attached(nodes), key \in ImplicitSpellings :
        have_type_modifier(nodes[N]) =>
            \A value \in ReservedValues \cup { SmallDict, ListOfOne } :
                Refused(nodes, set_value(nodes, N, key, value))

\* a section that holds a class, as set made it, next to a plain root that
\* takes 'object' as a key
C29_Witness ==
    \E N \in Attached(nodes) :
        /\ have_type_modifier(nodes[N])
        /\ DataKeys(nodes[N]) = { K_name, K_module }
        /\ set_value(nodes, N, S_object, Int_(1)).err = "ValueError"
        /\ ~have_type_modifier(nodes[1])
        /\ set_value(nodes, 1, S_object, Int_(1)).err = ""

----------------------------------------------------------------------------
(* The state machine of saving: a tree with sections, a stored file path,  *)
(* and a file system that save and save_as write.                          *)

SaveKeys == { S_a }

SaveValues == { Int_(1) }

\* the file_path arguments: the paths as strings
PathArgs == { Str_(path) : path \in Paths }

\* the tree and the file system after a call that can write
BecomesSaved(r) ==
    /\ nodes' = r.nodes
    /\ files' = r.files
    /\ UNCHANGED << wholeFrozen, parserVars >>

\* node.set_file_path(file_path)
SetFilePath(self, file_path) == Becomes(set_file_path(nodes, self, file_path).nodes)

\* node.save(file_path)
Save(self, file_path) == BecomesSaved(save(nodes, files, self, file_path))

\* node.save_as(file_path)
SaveAs(self, file_path) == BecomesSaved(save_as(nodes, files, self, file_path))

SaveNext ==
    \E self \in Attached(nodes) :
        \/ \E key \in SaveKeys, value \in SaveValues : SetItem(self, key, value)
        \/ \E key \in SaveKeys : GetItem(self, key)
        \/ \E file_path \in PathArgs \cup { NoneV } : SetFilePath(self, file_path)
        \/ \E file_path \in PathArgs \cup { NoneV } : Save(self, file_path)
        \/ \E file_path \in PathArgs : SaveAs(self, file_path)

SpecSave == TreeInit /\ [][SaveNext]_vars

\* the call returned, wrote the dump of the whole tree to the path and nothing
\* else, and left the tree, stored file paths included, as it was
WroteTreeTo(r, path) ==
    /\ r.err = ""
    /\ r.nodes = nodes
    /\ r.files = [files EXCEPT ![path] = File(dumps(nodes, 1).lines)]

(* C27.  Save goes through the root and honours the given path:            *)
(* save(file_path=p) on any node, root or not, writes the dump of the      *)
(* whole tree to p and leaves the stored file path alone; save() without a *)
(* path writes the dump of the whole tree to the root's stored file path.  *)
C27_SaveHonoursPath ==
    \A N \in Attached(nodes) :
        /\ \A path \in Paths : WroteTreeTo(save(nodes, files, N, Str_(path)), path)
        /\ nodes[1].meta.config_file_path \in PathArgs =>
              WroteTreeTo(save(nodes, files, N, NoneV), nodes[1].meta.config_file_path.s)

----------------------------------------------------------------------------
(* The state machine of path access: a tree with globals sections that is  *)
(* written and read with single keys and with tuples of keys.              *)

S_xy == Str_(<< "x", "y" >>)

PathKeys == { S_a, S_globals }

PathValues == { Int_(1), S_xy }

\* the tuples of at most n of the keys
RECURSIVE TuplesOf(_, _)
TuplesOf(keys, n) ==
    IF n = 0 THEN { << >> }
    ELSE TuplesOf(keys, n - 1) \cup
         { Append(t, k) : t \in { u \in TuplesOf(keys, n - 1) : Len(u) = n - 1 }, k \in keys }

\* the tuples a step reads with
StepTuples == TuplesOf(PathKeys, 2)

\* node[key] with a tuple
GetTuple(self, key) == Becomes(__getitem___of_tuple(nodes, self, key).nodes)

PathNext ==
    \E self \in Attached(nodes) :
        \/ \E key \in PathKeys, value \in PathValues : SetItem(self, key, value)
        \/ \E key \in StepTuples : GetTuple(self, key)

SpecPath == TreeInit /\ [][PathNext]_vars

\* r[k], when the expression r returned
Then(r, k) == IF r.err # "" THEN r ELSE Subscript(r.nodes, r.ret, k)

\* node[k1][k2]...[kn], written out for n up to 3
Chained(ns, N, key) ==
    CASE Len(key) = 0 -> Return(ns, NodeRef(N))
      [] Len(key) = 1 -> __getitem__(ns, N, key[1])
      [] Len(key) = 2 -> Then(__getitem__(ns, N, key[1]), key[2])
      [] Len(key) = 3 -> Then(Then(__getitem__(ns, N, key[1]), key[2]), key[3])

\* the tuples read: of the keys written, an index and a key bound nowhere
ReadTuples == TuplesOf(PathKeys \cup { Int_(0), S_b }, 2) \cup TuplesOf(PathKeys \cup { Int_(0) }, 3)

(* C28.  Path access: for every tuple of keys (k1, ..., kn), node[(k1,     *)
(* ..., kn)] has the outcome of node[k1][k2]...[kn]: the same object or    *)
(* value, the same sections made on the way, the same exception; each      *)
(* element is resolved against the result of the previous one, by the      *)
(* rule of single-key access when that result is a node.                   *)
C28_PathAccess ==
    \A N \in Attached(nodes), key \in ReadTuples :
        __getitem___of_tuple(nodes, N, key) = Chained(nodes, N, key)

\* a section under a root whose globals section binds 'a' to a string: the
\* path (section, 'a', 0) ends at the first character of the string
C28_Witness ==
    \E N \in Attached(nodes) :
        /\ nodes[N].meta.owner = 1
        /\ nodes[N].meta.key = << "a" >>
        /\ GlobalsBinds(nodes, 1, << "a" >>)
        /\ GlobalsValue(nodes, 1, << "a" >>) = S_xy
        /\ __getitem___of_tuple(nodes, N, << S_a, Int_(0) >>) = Return(nodes, Str_(<< "x" >>))
        /\ __getitem___of_tuple(nodes, 1, << S_a, S_a, Int_(0) >>) =
              Return(nodes, Str_(<< "x" >>))
        /\ __getitem___of_tuple(nodes, 1, << S_a, S_b >>).ret.t = "node"

----------------------------------------------------------------------------
(* The value of a key/value line: one line 'a =' followed by a value       *)
(* token, loaded into an empty root.                                       *)

MaxToken == 3

TokenChars == { "1", "0", ".", "a", " ", "'" }

\* the texts of at most n of the characters
RECURSIVE TextsOf(_, _)
TextsOf(chars, n) ==
    IF n = 0 THEN { << >> }
    ELSE TextsOf(chars, n - 1) \cup
         { Append(t, c) : t \in { u \in TextsOf(chars, n - 1) : Len(u) = n - 1 }, c \in chars }

ValueTokens == TextsOf(TokenChars, MaxToken) \ { << >> }

\* the line 'a =' followed by what is written after the equals sign
KeyValueLine(written) == << "a", " ", "=" >> \o written

InferInit ==
    /\ nodes = EmptyRoot
    /\ wholeFrozen = FALSE
    /\ fp \in { << KeyValueLine(written) >> : written \in ValueTokens }
    /\ lineno = 0
    /\ conf_stack = << [indent |-> 0, conf |-> 1] >>
    /\ new_conf = 0
    /\ perr = 0
    /\ files = NoFiles

InferNext == ParseStep

SpecInfer == InferInit /\ [][InferNext]_vars

\* what the line has after the equals sign
AfterEquals == From(fp[1], 4)

\* text.lstrip()
RECURSIVE LStrip(_)
LStrip(s) == IF s # << >> /\ IsSpace(s[1]) THEN LStrip(Tail(s)) ELSE s

\* the value token, trimmed
Trimmed(s) == Strip(LStrip(s))

\* the parsers in their order: integer, float, structured literal, raw string
Accepts(p, token) ==
    CASE p = 1 -> IsIntText(token)
      [] p = 2 -> IsFloatText(token)
      [] p = 3 -> IsLiteralText(token)
      [] p = 4 -> TRUE

ResultOf(p, token) ==
    CASE p = 1 -> IntOfText(token)
      [] p = 2 -> FloatOfText(token)
      [] p = 3 -> LiteralOfText(token)
      [] p = 4 -> Str_(token)

FirstAccepting(token) ==
    ResultOf(CHOOSE p \in 1..4 : Accepts(p, token) /\ \A q \in 1..(p - 1) : ~Accepts(q, token),
             token)

\* the line matches the key/value grammar
IsKeyValueLine(line) == RE_ALL_LINES(line).kind = "value"

(* C32.  Value inference: the value stored for a key/value line is the     *)
(* result of the first parser, in the order integer, float, structured     *)
(* literal, raw string, that accepts the trimmed value token; and the      *)
(* conversion never fails for a line that matches the key/value grammar.   *)
C32_ValueInference ==
    IsKeyValueLine(fp[1]) =>
        /\ perr = 0
        /\ lineno = 1 =>
              /\ DataKeys(nodes[1]) = { << "a" >> }
              /\ get_value(nodes, 1, S_a, test_item).ret = FirstAccepting(Trimmed(AfterEquals))

----------------------------------------------------------------------------
(* The state machine of defaults: a tree whose keys are set and given      *)
(* defaults.                                                               *)

DefaultKeys == { S_a, S_b }

DefaultValues == { Int_(1), Int_(2) }

\* the keys a default is asked for: the keys written and a metadata name
DefaultReads == DefaultKeys \cup { S_root }

\* node.setdefault(key, default)
SetDefault(self, key, default) == Becomes(setdefault(nodes, self, key, default).nodes)

DefaultNext ==
    \E self \in Attached(nodes) :
        \/ \E key \in DefaultKeys, value \in DefaultValues : SetItem(self, key, value)
        \/ \E key \in DefaultKeys : AddSection(self, key)
        \/ \E key \in DefaultReads, default \in DefaultValues : SetDefault(self, key, default)

SpecDefault == TreeInit /\ [][DefaultNext]_vars

\* the key is bound in the node, or is a metadata name
IsBoundIn(ns, N, key) ==
    \A kt \in { __key_transform__(key) } :
        kt.err = "" /\ (kt.key \in MetaKeys \/ InData(ns[N], kt.key))

(* C35.  setdefault(key, default) on a node where key is bound, or is a    *)
(* metadata name, returns the existing value and changes nothing; on a     *)
(* node where key is absent it binds key to default as set(key, default)   *)
(* would, and returns default.                                             *)
C35_SetDefault ==
    \A N \in Attached(nodes), key \in DefaultReads, default \in DefaultValues :
        \A r \in { setdefault(nodes, N, key, default) } :
            IF IsBoundIn(nodes, N, key)
            THEN r = Return(nodes, get_value(nodes, N, key, NoneV).ret)
            ELSE \A w \in { set_value(nodes, N, key, default) } :
                    /\ r.nodes = w.nodes
                    /\ r.err = w.err
                    /\ w.err = "" => r.ret = default

====
